---- MODULE Spec2Model ----
(***************************************************************************)
(* A model of the hierarchical logging facility: the logger tree with its  *)
(* shared/weak ownership, level and stream settings, log files, and the    *)
(* dispatch of a record from a logger up to the root.                      *)
(*                                                                         *)
(* Strings that the code parses (module names) are sequences of one-       *)
(* character strings; file names, which the code only compares, are        *)
(* strings.  A logger object is a record in `nodes', addressed by an       *)
(* integer that stands for its address.                                    *)
(***************************************************************************)
EXTENDS Integers, Sequences, FiniteSets, Bags, TLC

VARIABLES
  nodes,      \* address -> logger object, for every object not yet destructed
  held,       \* the bag of addresses held by the Logger handles in scope
  fs,         \* the absolute paths that exist in the file system
  autologOn,  \* logging::autolog
  exited,     \* exit(1) has been called
  last,       \* the last call: what it was, what it returned, what it wrote
  formatters, \* address -> Formatter object on the heap
  fmtobjs,    \* the Formatter values the callers got from the factory
  rendered,   \* the last call of format_record: its inputs and its result
  threads,    \* thread -> the call it is in and how far it has got
  mutex       \* mutex -> the thread that owns it, 0 when it is free

fmtvars == <<formatters, fmtobjs, rendered>>
thrvars == <<threads, mutex>>
vars == <<nodes, held, fs, autologOn, exited, last, fmtvars, thrvars>>

----------------------------------------------------------------------------
(* Constants of include/logging.h *)

Unchanged == -1
DEVNULL == 0
STDOUT == 1
STDERR == 2
STDLOG == 3
NOTSET == 0
DEBUG == 1
INFO == 2
WARNING == 3
ERROR == 4
CRITICAL == 5
MINLOG == NOTSET
MAXLOG == CRITICAL
MAX_MODULE_NAME_SIZE == 256
MAX_MODULE_SUBFIELDS == 24

\* the null pointer, for a parent link and for a handle variable that holds nothing
nullptr == -1
\* std::string::npos, the "not found" position
npos == -1
\* the address that stands for the static root_logger once it is created
RootAddr == 0
\* the formatter object get_root_logger creates as the default formatter
DefFormatter == 0
\* MAX_RECORD_LENGTH
MAX_RECORD_LENGTH == 512

----------------------------------------------------------------------------
(* Bounds of the model *)

\* number of handles (Logger values) the callers have in scope at a time
NHandles == 2
\* number of threads that call the library
NThreads == 2
\* number of Formatter values the callers get from the factory
NFormatters == 1

----------------------------------------------------------------------------
(* Strings *)

Min(S) == CHOOSE x \in S : \A y \in S : x <= y
Max2(a, b) == IF a >= b THEN a ELSE b
Min2(a, b) == IF a <= b THEN a ELSE b
Abs(x) == IF x < 0 THEN -x ELSE x

\* std::string::find(c, from): the first position >= from (0-based) or npos
find(s, c, from) ==
  LET hits == {i \in (from + 1) .. Len(s) : s[i] = c}
  IN IF hits = {} THEN npos ELSE Min(hits) - 1

\* std::string::substr(0, pos): the first pos characters, all of them for npos
substr0(s, pos) == IF pos = npos \/ pos >= Len(s) THEN s ELSE SubSeq(s, 1, pos)

Repeat(c, n) == [i \in 1 .. n |-> c]
\* "a.a.a ... a" with n fields
Dotted(n) == [i \in 1 .. (2 * n - 1) |-> IF i % 2 = 1 THEN "a" ELSE "."]

----------------------------------------------------------------------------
(* Ownership *)

Live(ns) == DOMAIN ns

\* two departures from the use count: the static root_logger does not
\* count, and the children do not count
UseCountNoStatic(ns, sl, id) ==
  CopiesIn(id, sl) + Cardinality({c \in DOMAIN ns : ns[c].parent = id})
UseCountNoChildren(ns, sl, id) ==
  CopiesIn(id, sl) + (IF id = RootAddr THEN 1 ELSE 0)

\* shared_ptr use count of the object at address id: the handles holding
\* it, the children holding it as parent, and the static root_logger
UseCount(ns, sl, id) ==
  CopiesIn(id, sl)
  + Cardinality({c \in Live(ns) : ns[c].parent = id})
  + (IF id = RootAddr THEN 1 ELSE 0)

\* weak_ptr::expired() of a dictionary entry
Expired(ns, sl, id) == id \notin Live(ns) \/ UseCount(ns, sl, id) = 0

\* the address operator new returns: one no live object has
NewAddr(ns) == Min({i \in 0 .. Cardinality(Live(ns)) : i \notin Live(ns)})

Remove(ns, id) == [i \in Live(ns) \ {id} |-> ns[i]]
Erase(d, k) == [x \in DOMAIN d \ {k} |-> d[x]]

----------------------------------------------------------------------------
(* The logger object *)

\* Logger::Logger(module); the log file member starts closed
NewLogger(module) ==
  [ modname   |-> module,
    loglevel  |-> NOTSET,
    outstream |-> "null",
    formatter |-> nullptr,
    propagate |-> TRUE,
    parent    |-> nullptr,
    filename  |-> "",
    isopen    |-> FALSE,
    logfile   |-> "nullptr",
    dict      |-> <<>> ]

\* the value set_loglevel stores for an argument other than UNCHANGED
ClampLevel(level) == Min2(MAXLOG, Max2(MINLOG, Abs(level)))

\* two departures from set_loglevel: one stores whatever it is given, the
\* other stores nothing
StoreLevelAlways(cur, level) == ClampLevel(level)
StoreLevelNever(cur, level) == cur

\* Logger::set_loglevel: the new value of loglevel
StoreLevel(cur, level) == IF level /= Unchanged THEN ClampLevel(level) ELSE cur

\* the least and the greatest int
INT_MAX == 2147483647
INT_MIN == -INT_MAX - 1

\* the values set_loglevel may store.  abs(INT_MIN) is not defined: it
\* comes out as INT_MIN, which max(MINLOG, ...) takes to MINLOG, unless
\* the build has left max(MINLOG, ...) out, abs being never negative
StoredLevels(cur, level) ==
  IF level = INT_MIN
  THEN {Min2(MAXLOG, Max2(MINLOG, INT_MIN)), Min2(MAXLOG, INT_MIN)}
  ELSE {StoreLevel(cur, level)}

\* Logger::set_streamer(int): the new value of outstream
SelectStream(cur, streamval) ==
  CASE streamval = STDOUT  -> "cout"
    [] streamval = STDERR  -> "cerr"
    [] streamval = STDLOG  -> "clog"
    [] streamval = DEVNULL -> "null"
    [] OTHER               -> cur

----------------------------------------------------------------------------
(* The formatter object *)

\* DEFAULT_RECORDFMT, "%t %I[%l] %N%m"
DEFAULT_RECORDFMT ==
  <<"%", "t", " ", "%", "I", "[", "%", "l", "]", " ", "%", "N", "%", "m">>
DEFAULT_TIMEFMT == "%Y/%m/%d:%H:%M:%S"

\* Formatter::Formatter(recfmt, timefmt, eol)
Formatter(recfmt, timefmt, eol) ==
  [ recordformat |-> recfmt, timeformat |-> timefmt, eol |-> eol ]

\* new Formatter, all arguments defaulted
NewFormatter == Formatter(DEFAULT_RECORDFMT, DEFAULT_TIMEFMT, TRUE)

\* Formatter::level_to_string(level, uppercase)
level_to_string(level, uppercase) ==
  CASE level = NOTSET   -> IF uppercase THEN <<"U", "N", "S", "E", "T">>
                           ELSE <<"u", "n", "s", "e", "t">>
    [] level = DEBUG    -> IF uppercase THEN <<"D", "E", "B", "U", "G">>
                           ELSE <<"d", "e", "b", "u", "g">>
    [] level = INFO     -> IF uppercase THEN <<"I", "N", "F", "O">>
                           ELSE <<"i", "n", "f", "o">>
    [] level = WARNING  -> IF uppercase THEN <<"W", "A", "R", "N", "I", "N", "G">>
                           ELSE <<"w", "a", "r", "n", "i", "n", "g">>
    [] level = ERROR    -> IF uppercase THEN <<"E", "R", "R", "O", "R">>
                           ELSE <<"e", "r", "r", "o", "r">>
    [] level = CRITICAL -> IF uppercase
                           THEN <<"C", "R", "I", "T", "I", "C", "A", "L">>
                           ELSE <<"c", "r", "i", "t", "i", "c", "a", "l">>
    [] OTHER            -> IF uppercase THEN <<"U", "N", "K", "N", "O", "W", "N">>
                           ELSE <<"u", "n", "k", "n", "o", "w", "n">>

\* what the clock and the process give: strftime of the default time
\* format at the time of the call, the hash of the thread id in hexadecimal,
\* the pid and the pid of the parent
TimeStamp ==
  <<"2", "0", "2", "3", "/", "0", "1", "/", "1", "5", ":",
    "1", "0", ":", "3", "0", ":", "0", "0">>
TimeFmtError ==
  <<"t", "i", "m", "e", " ", "f", "m", "t", " ", "e", "r", "r", "o", "r">>
ThreadId == <<"7", "f", "3", "a">>
ProcessId == <<"4", "2">>
ParentId == <<"1">>

\* Formatter::format_time: strftime gives 0 for a format that expands to nothing
format_time(timeformat) ==
  IF timeformat = DEFAULT_TIMEFMT THEN TimeStamp ELSE TimeFmtError
format_tid == ThreadId
format_pid == ProcessId
format_ppid == ParentId

\* a departure from s_append: a string that is too long stays as it is
s_appendNoResize(r, str, max) ==
  IF Len(r) < max THEN r \o SubSeq(str, 1, Min2(Len(str), max - Len(r)))
  ELSE r

\* the lambda s_append of format_record
s_append(r, str, max) ==
  IF Len(r) > max THEN SubSeq(r, 1, max)
  ELSE IF Len(r) < max THEN r \o SubSeq(str, 1, Min2(Len(str), max - Len(r)))
  ELSE r

\* the lambda c_append of format_record
c_append(r, c) == IF Len(r) < 4 THEN Append(r, c) ELSE r

\* a departure from the cases 'N' and 'n': the colon follows every name
AppendNameAlways(record, name, c) ==
  IF c = "N" THEN s_append(record, name, MAX_RECORD_LENGTH) \o <<":", " ">>
  ELSE s_append(record, name, MAX_RECORD_LENGTH)

\* the cases 'N' and 'n' of format_record
AppendName(record, name, c) ==
  LET append_colon == c = "N" /\ Len(name) > 0
  IN IF append_colon
     THEN s_append(record, name, MAX_RECORD_LENGTH) \o <<":", " ">>
     ELSE s_append(record, name, MAX_RECORD_LENGTH)

\* a departure from the switch: the default case appends the character
\* and not the '%' before it
ExpandDropsPercent(fm, record, pending, c, message, name, level, main) ==
  CASE c \in {"t", "T"} ->
         s_append(record, format_time(fm.timeformat), MAX_RECORD_LENGTH)
    [] c \in {"N", "n"} -> AppendName(record, name, c)
    [] c = "I" ->
         IF ~main
         THEN s_append(record, <<"(">> \o format_tid \o <<")", " ">>,
                       MAX_RECORD_LENGTH)
         ELSE record
    [] c = "i" -> s_append(record, format_tid, MAX_RECORD_LENGTH)
    [] c = "P" -> s_append(record, format_ppid, MAX_RECORD_LENGTH)
    [] c = "p" -> s_append(record, format_pid, MAX_RECORD_LENGTH)
    [] c \in {"L", "l"} ->
         s_append(record, level_to_string(level, c = "L"), MAX_RECORD_LENGTH)
    [] c \in {"M", "m"} -> s_append(record, message, MAX_RECORD_LENGTH)
    [] c = "%" -> s_append(record, <<"%">>, MAX_RECORD_LENGTH)
    [] OTHER -> s_append(record, <<c>>, MAX_RECORD_LENGTH)

\* a departure from the switch: no case for '%', which the default takes
ExpandNoPercentCase(fm, record, pending, c, message, name, level, main) ==
  CASE c \in {"t", "T"} ->
         s_append(record, format_time(fm.timeformat), MAX_RECORD_LENGTH)
    [] c \in {"N", "n"} -> AppendName(record, name, c)
    [] c = "I" ->
         IF ~main
         THEN s_append(record, <<"(">> \o format_tid \o <<")", " ">>,
                       MAX_RECORD_LENGTH)
         ELSE record
    [] c = "i" -> s_append(record, format_tid, MAX_RECORD_LENGTH)
    [] c = "P" -> s_append(record, format_ppid, MAX_RECORD_LENGTH)
    [] c = "p" -> s_append(record, format_pid, MAX_RECORD_LENGTH)
    [] c \in {"L", "l"} ->
         s_append(record, level_to_string(level, c = "L"), MAX_RECORD_LENGTH)
    [] c \in {"M", "m"} -> s_append(record, message, MAX_RECORD_LENGTH)
    [] OTHER -> s_append(record, pending, MAX_RECORD_LENGTH)

\* the switch of format_record on the character after a '%'
Expand(fm, record, pending, c, message, name, level, main) ==
  CASE c \in {"t", "T"} ->
         s_append(record, format_time(fm.timeformat), MAX_RECORD_LENGTH)
    [] c \in {"N", "n"} -> AppendName(record, name, c)
    [] c = "I" ->
         IF ~main
         THEN s_append(record, <<"(">> \o format_tid \o <<")", " ">>,
                       MAX_RECORD_LENGTH)
         ELSE record
    [] c = "i" -> s_append(record, format_tid, MAX_RECORD_LENGTH)
    [] c = "P" -> s_append(record, format_ppid, MAX_RECORD_LENGTH)
    [] c = "p" -> s_append(record, format_pid, MAX_RECORD_LENGTH)
    [] c \in {"L", "l"} ->
         s_append(record, level_to_string(level, c = "L"), MAX_RECORD_LENGTH)
    [] c \in {"M", "m"} -> s_append(record, message, MAX_RECORD_LENGTH)
    [] c = "%" -> s_append(record, <<"%">>, MAX_RECORD_LENGTH)
    [] OTHER -> s_append(record, pending, MAX_RECORD_LENGTH)

\* the loop of format_record from position i (0-based) of the record format
RECURSIVE FormatFrom(_, _, _, _, _, _, _)
FormatFrom(fm, i, record, message, name, level, main) ==
  LET fmt == fm.recordformat
  IN IF i >= Len(fmt) THEN s_append(record, <<>>, MAX_RECORD_LENGTH)
     ELSE LET c == fmt[i + 1]
          IN IF i + 1 >= Len(fmt) \/ c /= "%"
             THEN FormatFrom(fm, i + 1,
                             s_append(record, c_append(<<>>, c),
                                      MAX_RECORD_LENGTH),
                             message, name, level, main)
             ELSE LET c2      == fmt[i + 2]
                      pending == c_append(c_append(<<>>, c), c2)
                  IN FormatFrom(fm, i + 2,
                                Expand(fm, record, pending, c2, message, name,
                                       level, main),
                                message, name, level, main)

\* Formatter::format_record(message, name, level) of the formatter fm, called
\* from the main thread or from another one
format_record(fm, message, name, level, main) ==
  FormatFrom(fm, 0, <<>>, message, name, level, main)

----------------------------------------------------------------------------
(* Dispatch *)

\* one record written to one sink by the walk of one logaux call
Write(ns, inst, origin, level, tofile) ==
  [ node  |-> inst,
    file  |-> tofile,
    sink  |-> IF tofile THEN ns[inst].filename ELSE ns[inst].outstream,
    name  |-> ns[origin].modname,
    level |-> level,
    fmt   |-> ns[inst].formatter ]

\* a departure from the test of logaux: a record at the very level of the
\* logger is held back
PassesStrict(ns, inst, level) == level > ns[inst].loglevel

\* the test that lets a record through at a walked logger
Passes(ns, inst, level) == level >= ns[inst].loglevel

\* a departure from the loop body of logaux: the record carries the name
\* of the walked logger, not that of the logger the call was made on
WritesAtOwnName(ns, inst, origin, level) ==
  IF Passes(ns, inst, level)
  THEN (IF ns[inst].outstream /= "null"
        THEN <<Write(ns, inst, inst, level, FALSE)>> ELSE <<>>)
       \o (IF ns[inst].isopen
           THEN <<Write(ns, inst, inst, level, TRUE)>> ELSE <<>>)
  ELSE <<>>

\* the body of the loop of Logger::logaux for one walked logger
WritesAt(ns, inst, origin, level) ==
  IF Passes(ns, inst, level)
  THEN (IF ns[inst].outstream /= "null"
        THEN <<Write(ns, inst, origin, level, FALSE)>> ELSE <<>>)
       \o (IF ns[inst].isopen
           THEN <<Write(ns, inst, origin, level, TRUE)>> ELSE <<>>)
  ELSE <<>>

\* a departure from the end of the loop of logaux: propagate is not read
GoesOnAlways(ns, inst) == ns[inst].parent /= nullptr

\* whether the walk goes on to the parent after a walked logger
GoesOn(ns, inst) == ns[inst].propagate /\ ns[inst].parent /= nullptr

\* Logger::logaux: the loggers walked, in order, from origin
RECURSIVE WalkFrom(_, _)
WalkFrom(ns, inst) ==
  <<inst>> \o (IF GoesOn(ns, inst) THEN WalkFrom(ns, ns[inst].parent) ELSE <<>>)

RECURSIVE WritesOf(_, _, _, _)
WritesOf(ns, walk, origin, level) ==
  IF walk = <<>> THEN <<>>
  ELSE WritesAt(ns, Head(walk), origin, level)
       \o WritesOf(ns, Tail(walk), origin, level)

\* Logger::logaux: the records written, in order
logaux(ns, origin, level) == WritesOf(ns, WalkFrom(ns, origin), origin, level)

\* Logger::autolog: the stream and level are forced for the time of the call
\* and put back after it; the records written meanwhile
AutologForced(ns, inst) ==
  [ns EXCEPT ![inst].outstream = SelectStream(@, STDERR),
             ![inst].loglevel  = StoreLevel(@, DEBUG)]

autologWrites(ns, on, inst, level) ==
  IF on THEN logaux(AutologForced(ns, inst), inst, level) ELSE <<>>

\* the object after autolog has put back the stream and the level it saved
autologRestored(ns, on, inst) ==
  IF on
  THEN [AutologForced(ns, inst) EXCEPT
          ![inst].outstream = ns[inst].outstream,
          ![inst].loglevel  = StoreLevel(@, ns[inst].loglevel)]
  ELSE ns

----------------------------------------------------------------------------
(* Running state of a call: the objects, what the call has written through  *)
(* logaux (out) and through autolog (auto), the pointer it works on,        *)
(* whether it has called exit, the objects whose file a destructor has      *)
(* closed (shut) and those whose destructor has found an error (errs)       *)

Start(ns) == [ns |-> ns, out |-> <<>>, auto |-> <<>>, instance |-> nullptr,
              exited |-> FALSE, shut |-> {}, errs |-> {}]

\* instance->autolog(level, ...)
Auto(st, on, inst, level) ==
  [st EXCEPT !.ns   = autologRestored(st.ns, on, inst),
             !.auto = @ \o autologWrites(st.ns, on, inst, level)]

----------------------------------------------------------------------------
(* Logger::~Logger, run when the use count of an object drops to zero.      *)
(* The parent is released when the destructor is over, which may run the    *)
(* parent's destructor in turn.                                             *)

\* the branch taken when the object still has entries in its dictionary
HasLeaves(me) == DOMAIN me.dict /= {}

\* a departure from the orphan branch: the entry in the dictionary of the
\* parent is left where it is
OrphanKeepsEntry(st, on, id) ==
  LET s1 == Auto(st, on, id, DEBUG)
      s3 == Auto(s1, on, id, DEBUG)
      s4 == [s3 EXCEPT !.ns[id].parent = nullptr]
      s5 == Auto(s4, on, id, DEBUG)
      s6 == [s5 EXCEPT !.ns[id].isopen = FALSE,
                       !.shut = IF s5.ns[id].isopen THEN @ \cup {id} ELSE @]
  IN Auto(s6, on, id, DEBUG)

\* the orphan branch: erase the entry in the parent, drop the parent, close the file
Orphan(st, on, id) ==
  LET p  == st.ns[id].parent
      s1 == Auto(st, on, id, DEBUG)
      s2 == [s1 EXCEPT !.ns[p].dict = Erase(@, st.ns[id].modname)]
      s3 == Auto(s2, on, id, DEBUG)
      s4 == [s3 EXCEPT !.ns[id].parent = nullptr]
      s5 == Auto(s4, on, id, DEBUG)
      s6 == [s5 EXCEPT !.ns[id].isopen = FALSE,
                       !.shut = IF s5.ns[id].isopen THEN @ \cup {id} ELSE @]
  IN Auto(s6, on, id, DEBUG)

\* a departure from the destructor: it does not look at the entry in the
\* dictionary of the parent before it erases it
DestructBodyNoLook(st, sl, on, id) ==
  LET s1 == Auto(st, on, id, DEBUG)
      me == s1.ns[id]
  IN IF HasLeaves(me)
     THEN [Auto(s1, on, id, ERROR) EXCEPT !.errs = @ \cup {id}]
     ELSE IF me.parent /= nullptr
     THEN Auto(Orphan(s1, on, id), on, id, DEBUG)
     ELSE Auto(s1, on, id, DEBUG)

\* the body of the destructor
DestructBody(st, sl, on, id) ==
  LET s1 == Auto(st, on, id, DEBUG)
      me == s1.ns[id]
      p  == me.parent
      entry == IF p /= nullptr /\ me.modname \in DOMAIN s1.ns[p].dict
               THEN s1.ns[p].dict[me.modname] ELSE nullptr
  IN IF HasLeaves(me)
     THEN [Auto(s1, on, id, ERROR) EXCEPT !.errs = @ \cup {id}]
     ELSE IF p /= nullptr
     THEN IF ~Expired(s1.ns, sl, entry)
          THEN [Auto(s1, on, id, ERROR) EXCEPT !.errs = @ \cup {id}]
          ELSE Auto(Orphan(s1, on, id), on, id, DEBUG)
     ELSE Auto(s1, on, id, DEBUG)

RECURSIVE Destruct(_, _, _, _)
Destruct(st, sl, on, id) ==
  LET p  == st.ns[id].parent
      s1 == DestructBody(st, sl, on, id)
      s2 == [s1 EXCEPT !.ns = Remove(@, id)]
  IN IF p /= nullptr /\ UseCount(s2.ns, sl, p) = 0
     THEN Destruct(s2, sl, on, p)
     ELSE s2

----------------------------------------------------------------------------
(* Logger::get_root_logger and Logger::get_regular_logger *)

get_root_logger(st) ==
  IF RootAddr \in Live(st.ns)
  THEN [st EXCEPT !.instance = RootAddr]
  ELSE [st EXCEPT !.ns = @ @@ (RootAddr :>
                      [NewLogger(<<>>) EXCEPT !.formatter = DefFormatter]),
                  !.instance = RootAddr]

\* the name is too long for a module name
TooLong(module) == Len(module) > MAX_MODULE_NAME_SIZE

\* the loop has gone round more often than a name may have fields
TooMany(exit_loop) == exit_loop > MAX_MODULE_SUBFIELDS

\* a departure from the creation branch: the new logger is not entered in
\* the dictionary of its parent
CreateUnlisted(st, on, submod, def_formatter) ==
  LET inst == st.instance
      new  == NewAddr(st.ns)
      s1   == Auto(st, on, inst, DEBUG)
  IN [s1 EXCEPT
        !.ns = @ @@ (new :> [NewLogger(submod) EXCEPT
                               !.formatter = def_formatter,
                               !.parent    = inst]),
        !.instance = new]

\* the branch that creates a logger for submod below st.instance
Create(st, on, submod, def_formatter) ==
  LET inst == st.instance
      new  == NewAddr(st.ns)
      s1   == Auto(st, on, inst, DEBUG)
  IN [s1 EXCEPT
        !.ns = [@ EXCEPT ![inst].dict = (submod :> new) @@ @]
               @@ (new :> [NewLogger(submod) EXCEPT
                             !.formatter = def_formatter,
                             !.parent    = inst]),
        !.instance = new]

\* one turn of the loop: find or create the logger of the next field
Step(st, sl, on, submod, def_formatter) ==
  LET inst    == st.instance
      s1      == Auto(st, on, inst, DEBUG)
      exists  == submod \in DOMAIN s1.ns[inst].dict
      expired == exists /\ Expired(s1.ns, sl, s1.ns[inst].dict[submod])
  IN IF exists /\ ~expired
     THEN LET s2 == Auto(s1, on, inst, DEBUG)
              s3 == [s2 EXCEPT !.instance = s2.ns[inst].dict[submod]]
          IN Auto(s3, on, s3.instance, DEBUG)
     ELSE IF exists
     THEN Create(Auto(Auto(s1, on, inst, DEBUG), on, inst, DEBUG),
                 on, submod, def_formatter)
     ELSE Create(s1, on, submod, def_formatter)

RECURSIVE Loop(_, _, _, _, _, _, _)
Loop(st, sl, on, module, def_formatter, dotpos, exit_loop) ==
  LET pos    == find(module, ".", dotpos)
      submod == substr0(module, pos)
  IN IF TooMany(exit_loop + 1)
     THEN [Auto(st, on, st.instance, ERROR) EXCEPT !.exited = TRUE]
     ELSE LET s1 == Step(st, sl, on, submod, def_formatter)
          IN IF pos = npos \/ s1.exited THEN s1
             ELSE Loop(s1, sl, on, module, def_formatter, pos + 1, exit_loop + 1)

get_regular_logger(st, sl, on, module) ==
  LET s0 == get_root_logger(st)
  IN IF TooLong(module)
     THEN [Auto(s0, on, s0.instance, ERROR) EXCEPT !.exited = TRUE]
     ELSE Loop(s0, sl, on, module, s0.ns[s0.instance].formatter, 0, 0)

----------------------------------------------------------------------------
(* Log files.  The file system is the set of absolute paths that exist; a   *)
(* file name is one of a few relative names the callers use.                *)

\* the absolute path a file name stands for
AbsPath(fname) ==
  CASE fname = "f.log"       -> "/cwd/f.log"
    [] fname = "./f.log"     -> "/cwd/f.log"
    [] fname = "ro.log"      -> "/cwd/ro.log"
    [] fname = "nodir/x.log" -> "/cwd/nodir/x.log"
    [] OTHER                 -> fname

\* realpath(3): the absolute path of an existing file, "" for the null result
realpath(files, fname) ==
  IF AbsPath(fname) \in files THEN AbsPath(fname) ELSE ""

\* ofs.open(fname, ios::trunc) succeeds: the directory exists and is writable
CanCreate(fname) == fname \in {"f.log", "./f.log"}
\* logfile.open(path, ios::app) succeeds: the file may be written
CanAppend(path) == path /= "/cwd/ro.log"

\* the first half of Logger::set_logfile: the absolute name of the new file,
\* the file system after the attempt to create it, and whether that failed
ResolveFile(files, fname) ==
  IF fname = "" THEN [newfname |-> "", files |-> files, err |-> FALSE]
  ELSE IF realpath(files, fname) /= ""
  THEN [newfname |-> realpath(files, fname), files |-> files, err |-> FALSE]
  ELSE IF CanCreate(fname)
  THEN [newfname |-> AbsPath(fname), files |-> files \cup {AbsPath(fname)},
        err |-> FALSE]
  ELSE [newfname |-> "", files |-> files, err |-> TRUE]

\* a departure from the second half of set_logfile: the empty name leaves
\* the current file alone
SwitchFileNoClose(me, newfname) ==
  IF newfname /= me.filename /\ newfname /= ""
  THEN IF CanAppend(newfname)
       THEN [me |-> [me EXCEPT !.isopen = TRUE, !.filename = newfname],
             closed |-> me.isopen, err |-> FALSE]
       ELSE [me |-> [me EXCEPT !.isopen = FALSE, !.filename = ""],
             closed |-> me.isopen, err |-> TRUE]
  ELSE [me |-> me, closed |-> FALSE, err |-> FALSE]

\* the second half: close the current file and open the new one; closed
\* tells whether logfile.close() was called on an open file
SwitchFile(me, newfname) ==
  IF newfname /= me.filename
  THEN LET shut == [me EXCEPT !.isopen = FALSE, !.filename = ""]
       IN IF newfname /= ""
          THEN IF CanAppend(newfname)
               THEN [me |-> [shut EXCEPT !.isopen = TRUE,
                                         !.filename = newfname],
                     closed |-> me.isopen, err |-> FALSE]
               ELSE [me |-> shut, closed |-> me.isopen, err |-> TRUE]
          ELSE [me |-> shut, closed |-> me.isopen, err |-> FALSE]
  ELSE [me |-> me, closed |-> FALSE, err |-> FALSE]

\* the second half of set_logfile where the logger has a pointer to its
\* file stream (logfile is "nullptr", "object" for a stream made by new,
\* or "deleted" for a pointer to a stream that has been deleted).
\* is_open() through a deleted pointer gives whatever is there (garbage)
SwitchStream(me, newfname, garbage) ==
  IF newfname /= me.filename
  THEN LET open == CASE me.logfile = "nullptr" -> FALSE
                     [] me.logfile = "object"  -> me.isopen
                     [] OTHER                  -> garbage
           shut == [me EXCEPT !.isopen = FALSE, !.filename = "",
                              !.logfile = IF open THEN "deleted" ELSE @]
       IN IF newfname /= ""
          THEN IF CanAppend(newfname)
               THEN [me |-> [shut EXCEPT !.logfile = "object",
                                         !.isopen = TRUE,
                                         !.filename = newfname],
                     closed |-> open, err |-> FALSE]
               ELSE [me |-> [shut EXCEPT !.logfile = "object"],
                     closed |-> open, err |-> TRUE]
          ELSE [me |-> shut, closed |-> open, err |-> FALSE]
  ELSE [me |-> me, closed |-> FALSE, err |-> FALSE]

----------------------------------------------------------------------------
(* Effective level.  Only the declaration of get_effective_loglevel is in   *)
(* the sources; it is modelled as the specification describes it: the       *)
(* level of the nearest logger on the way to the root that has one set,     *)
(* WARNING when none has.                                                   *)

DefaultLevel == WARNING

RECURSIVE get_effective_loglevel(_, _)
get_effective_loglevel(ns, id) ==
  IF ns[id].loglevel /= NOTSET THEN ns[id].loglevel
  ELSE IF ns[id].parent = nullptr THEN DefaultLevel
  ELSE get_effective_loglevel(ns, ns[id].parent)

----------------------------------------------------------------------------
(* The calls *)

NoCall ==
  [ op |-> "none", node |-> nullptr, name |-> <<>>, level |-> 0,
    stream |-> 0, fname |-> "", mode |-> FALSE, ret |-> 0,
    closed |-> FALSE, out |-> <<>>, auto |-> <<>>, walk |-> <<>>,
    fmt |-> 0, recfmt |-> <<>>, shut |-> {}, errs |-> {}, thread |-> 0 ]

\* nothing rendered yet
NoRender ==
  [ recordformat |-> <<>>, message |-> <<>>, name |-> <<>>, level |-> 0,
    main |-> TRUE, record |-> <<>> ]

\* the threads of the process, and the four mutexes of the library
Threads == 1 .. NThreads
Mutexes == {"tree", "fmt", "file", "log"}

\* a thread that is in no call of the library.  In a call: the call (op),
\* its instructions and the one to take next (prog, pc), the logger it is
\* made on (node), the logger the loop of logaux has got to (inst), the
\* object whose destructor runs (victim), the arguments, the object whose
\* entry get_regular_logger has found not expired in this turn of its loop
\* (seen), whether get_logger has got the pointer it will return (mode),
\* and the stream and the level autolog has saved (curos, curlevel)
Idle ==
  [ op |-> "idle", prog |-> <<>>, pc |-> 0, node |-> nullptr,
    inst |-> nullptr, victim |-> nullptr, name |-> <<>>, level |-> 0,
    stream |-> 0, fname |-> "", mode |-> FALSE, seen |-> nullptr,
    curos |-> "null", curlevel |-> NOTSET ]

Init ==
  /\ nodes = <<>>
  /\ held = EmptyBag
  /\ fs = {"/cwd/ro.log"}
  /\ autologOn = TRUE
  /\ exited = FALSE
  /\ last = NoCall
  /\ formatters = <<>>
  /\ fmtobjs = <<>>
  /\ rendered = NoRender
  /\ threads = [t \in Threads |-> Idle]
  /\ mutex = [m \in Mutexes |-> 0]

HeldNodes == BagToSet(held)

\* Logger::get_logger(module, level, stream), the result kept in a new handle
GetLogger(module, level, stream) ==
  /\ ~exited
  /\ BagCardinality(held) < NHandles
  /\ LET s0 == Start(nodes)
         s1 == IF module = <<>> THEN get_root_logger(s0)
               ELSE get_regular_logger(s0, held, autologOn, module)
         id == s1.instance
     IN IF s1.exited
        THEN /\ exited' = TRUE
             /\ nodes' = s1.ns
             /\ held' = held
             /\ last' = [NoCall EXCEPT !.op = "get_logger", !.name = module,
                           !.level = level, !.stream = stream,
                           !.auto = s1.auto]
        ELSE /\ exited' = FALSE
             /\ \E l \in StoredLevels(s1.ns[id].loglevel, level) :
                   nodes' = [s1.ns EXCEPT
                               ![id].loglevel  = l,
                               ![id].outstream = SelectStream(@, stream)]
             /\ held' = held (+) SetToBag({id})
             /\ last' = [NoCall EXCEPT !.op = "get_logger", !.node = id,
                           !.name = module, !.level = level,
                           !.stream = stream, !.ret = id, !.auto = s1.auto]
  /\ formatters' = IF DefFormatter \in DOMAIN formatters THEN formatters
                   ELSE formatters @@ (DefFormatter :> NewFormatter)
  /\ UNCHANGED <<fs, autologOn, fmtobjs, rendered, thrvars>>

\* a handle on the object at id goes out of scope
Release(id) ==
  /\ ~exited
  /\ id \in HeldNodes
  /\ LET sl == held (-) SetToBag({id})
         s1 == IF UseCount(nodes, sl, id) = 0
               THEN Destruct(Start(nodes), sl, autologOn, id)
               ELSE Start(nodes)
     IN /\ held' = sl
        /\ nodes' = s1.ns
        /\ last' = [NoCall EXCEPT !.op = "release", !.node = id,
                      !.auto = s1.auto, !.shut = s1.shut, !.errs = s1.errs]
  /\ UNCHANGED <<fs, autologOn, exited>>
  /\ UNCHANGED <<fmtvars, thrvars>>

\* Logger::set_loglevel(level) through a handle on id
SetLoglevel(id, level) ==
  /\ ~exited
  /\ id \in HeldNodes
  /\ \E l \in StoredLevels(nodes[id].loglevel, level) :
        nodes' = [nodes EXCEPT ![id].loglevel = l]
  /\ last' = [NoCall EXCEPT !.op = "set_loglevel", !.node = id,
                !.level = level, !.ret = nodes[id].loglevel]
  /\ UNCHANGED <<held, fs, autologOn, exited>>
  /\ UNCHANGED <<fmtvars, thrvars>>

\* Logger::get_effective_loglevel() through a handle on id
GetEffectiveLoglevel(id) ==
  /\ ~exited
  /\ id \in HeldNodes
  /\ last' = [NoCall EXCEPT !.op = "get_effective_loglevel", !.node = id,
                !.ret = get_effective_loglevel(nodes, id)]
  /\ UNCHANGED <<nodes, held, fs, autologOn, exited>>
  /\ UNCHANGED <<fmtvars, thrvars>>

\* Logger::set_streamer(streamval) through a handle on id
SetStreamer(id, streamval) ==
  /\ ~exited
  /\ id \in HeldNodes
  /\ nodes' = [nodes EXCEPT ![id].outstream = SelectStream(@, streamval)]
  /\ last' = [NoCall EXCEPT !.op = "set_streamer", !.node = id,
                !.stream = streamval, !.ret = nodes[id].outstream]
  /\ UNCHANGED <<held, fs, autologOn, exited>>
  /\ UNCHANGED <<fmtvars, thrvars>>

\* Logger::set_propagation(mode) through a handle on id
SetPropagation(id, mode) ==
  /\ ~exited
  /\ id \in HeldNodes
  /\ nodes' = [nodes EXCEPT ![id].propagate = mode]
  /\ last' = [NoCall EXCEPT !.op = "set_propagation", !.node = id,
                !.mode = mode, !.ret = nodes[id].propagate]
  /\ UNCHANGED <<held, fs, autologOn, exited>>
  /\ UNCHANGED <<fmtvars, thrvars>>

\* Logger::set_autolog(mode)
SetAutolog(mode) ==
  /\ ~exited
  /\ autologOn' = mode
  /\ last' = [NoCall EXCEPT !.op = "set_autolog", !.mode = mode,
                !.ret = autologOn]
  /\ UNCHANGED <<nodes, held, fs, exited>>
  /\ UNCHANGED <<fmtvars, thrvars>>

\* Logger::set_logfile(fname) through a handle on id; a failure is reported
\* with error(), a logaux call on the same logger
SetLogfile(id, fname) ==
  /\ ~exited
  /\ id \in HeldNodes
  /\ LET r   == ResolveFile(fs, fname)
         sw  == SwitchFile(nodes[id], r.newfname)
         ns  == [nodes EXCEPT ![id] = sw.me]
         err == r.err \/ sw.err
     IN /\ nodes' = ns
        /\ fs' = r.files
        /\ last' = [NoCall EXCEPT !.op = "set_logfile", !.node = id,
                      !.fname = fname,
                      !.ret = IF err THEN 1 ELSE 0,
                      !.closed = sw.closed,
                      !.out = IF err THEN logaux(ns, id, ERROR) ELSE <<>>,
                      !.walk = IF err THEN WalkFrom(ns, id) ELSE <<>>]
  /\ UNCHANGED <<held, autologOn, exited>>
  /\ UNCHANGED <<fmtvars, thrvars>>

\* Logger::set_logfile(fname) through a handle on id, where the logger has
\* a pointer to its file stream.  close() and delete through a pointer
\* that has been deleted end the process
SetLogfileOfStream(id, fname, garbage) ==
  /\ ~exited
  /\ id \in HeldNodes
  /\ LET r   == ResolveFile(fs, fname)
         sw  == SwitchStream(nodes[id], r.newfname, garbage)
         ns  == [nodes EXCEPT ![id] = sw.me]
         err == r.err \/ sw.err
         twice == nodes[id].logfile = "deleted" /\ sw.closed
     IN /\ nodes' = IF twice THEN nodes ELSE ns
        /\ fs' = r.files
        /\ exited' = twice
        /\ last' = [NoCall EXCEPT !.op = "set_logfile", !.node = id,
                      !.fname = fname,
                      !.ret = IF err THEN 1 ELSE 0,
                      !.closed = sw.closed,
                      !.out = IF err /\ ~twice THEN logaux(ns, id, ERROR)
                              ELSE <<>>,
                      !.walk = IF err /\ ~twice THEN WalkFrom(ns, id)
                               ELSE <<>>]
  /\ UNCHANGED <<held, autologOn>>
  /\ UNCHANGED <<fmtvars, thrvars>>

\* Logger::log(level, ...) through a handle on id
Log(id, level) ==
  /\ ~exited
  /\ id \in HeldNodes
  /\ last' = [NoCall EXCEPT !.op = "log", !.node = id, !.level = level,
                !.out = logaux(nodes, id, level),
                !.walk = WalkFrom(nodes, id)]
  /\ UNCHANGED <<nodes, held, fs, autologOn, exited>>
  /\ UNCHANGED <<fmtvars, thrvars>>

----------------------------------------------------------------------------
(* Formatters.  Formatter::get_formatter returns a Formatter by value: a    *)
(* copy of the object it has just made on the heap, with fmtptr pointing to *)
(* that object.  The callers keep the values they get (fmtobjs), so the     *)
(* heap objects stay alive.                                                 *)

\* the address operator new returns for a Formatter; DefFormatter is kept
\* for the default formatter
NewFmtAddr(fs0) ==
  Min({i \in 1 .. (Cardinality(DOMAIN fs0) + 1) : i \notin DOMAIN fs0})

\* Formatter::get_formatter(recfmt, timefmt, eol), the result kept by the caller
GetFormatter(recfmt, eol) ==
  /\ ~exited
  /\ Len(fmtobjs) < NFormatters
  /\ LET formatter == NewFmtAddr(formatters)
         obj       == Formatter(recfmt, DEFAULT_TIMEFMT, eol)
         fmt       == [ recordformat |-> obj.recordformat,
                        timeformat   |-> obj.timeformat,
                        eol          |-> obj.eol,
                        fmtptr       |-> formatter ]
     IN /\ formatters' = formatters @@ (formatter :> obj)
        /\ fmtobjs' = Append(fmtobjs, fmt)
        /\ last' = [NoCall EXCEPT !.op = "get_formatter",
                      !.fmt = Len(fmtobjs) + 1, !.recfmt = recfmt,
                      !.mode = eol, !.ret = formatter]
  /\ UNCHANGED <<nodes, held, fs, autologOn, exited, rendered, thrvars>>

\* Logger::set_formatter(ref_formatter) through a handle on id, with the
\* o-th Formatter value of the callers
SetFormatter(id, o) ==
  /\ ~exited
  /\ id \in HeldNodes
  /\ o \in DOMAIN fmtobjs
  /\ nodes' = [nodes EXCEPT ![id].formatter = fmtobjs[o].fmtptr]
  /\ last' = [NoCall EXCEPT !.op = "set_formatter", !.node = id, !.fmt = o,
                !.ret = fmtobjs[o].fmtptr]
  /\ UNCHANGED <<held, fs, autologOn, exited, fmtvars, thrvars>>

\* Formatter::set_recfmt(recfmt) on the o-th Formatter value of the callers
SetRecfmt(o, recfmt) ==
  /\ ~exited
  /\ o \in DOMAIN fmtobjs
  /\ fmtobjs' = [fmtobjs EXCEPT ![o].recordformat = recfmt]
  /\ last' = [NoCall EXCEPT !.op = "set_recfmt", !.fmt = o, !.recfmt = recfmt]
  /\ UNCHANGED <<nodes, held, fs, autologOn, exited, formatters, rendered,
                 thrvars>>

\* Formatter::set_eol(eol) on the o-th Formatter value of the callers
SetEol(o, eol) ==
  /\ ~exited
  /\ o \in DOMAIN fmtobjs
  /\ fmtobjs' = [fmtobjs EXCEPT ![o].eol = eol]
  /\ last' = [NoCall EXCEPT !.op = "set_eol", !.fmt = o, !.mode = eol]
  /\ UNCHANGED <<nodes, held, fs, autologOn, exited, formatters, rendered,
                 thrvars>>

\* logger.get_formatter().set_recfmt(recfmt) through a handle on id: the
\* reference Logger::get_formatter returns is to the object on the heap
SetRecfmtOfLogger(id, recfmt) ==
  /\ ~exited
  /\ id \in HeldNodes
  /\ formatters' = [formatters EXCEPT
                      ![nodes[id].formatter].recordformat = recfmt]
  /\ last' = [NoCall EXCEPT !.op = "get_formatter.set_recfmt", !.node = id,
                !.recfmt = recfmt, !.ret = nodes[id].formatter]
  /\ UNCHANGED <<nodes, held, fs, autologOn, exited, fmtobjs, rendered,
                 thrvars>>

\* the call of format_record in Logger::logaux, for a message the caller
\* has logged under a name at a level
FormatRecord(recfmt, message, name, level, main) ==
  /\ ~exited
  /\ rendered' =
       [ recordformat |-> recfmt, message |-> message, name |-> name,
         level |-> level, main |-> main,
         record |-> format_record(Formatter(recfmt, DEFAULT_TIMEFMT, TRUE),
                                  message, name, level, main) ]
  /\ UNCHANGED <<nodes, held, fs, autologOn, exited, last, formatters,
                 fmtobjs, thrvars>>

----------------------------------------------------------------------------
(* Threads.  A call made by a thread is a program: the lock_guard scopes    *)
(* of the function and of the functions it calls, in the order of the code, *)
(* each with the statement that changes the objects at the place where the  *)
(* code has it.  A thread takes one instruction at a step.                  *)

\* lock_guard at the start of a scope in which other locks are taken
Acq(m) == [i |-> "acq", m |-> m, what |-> "", k |-> 0, n |-> 0]
\* the end of such a scope
Rel(m) == [i |-> "rel", m |-> m, what |-> "", k |-> 0, n |-> 0]
\* a scope that takes no other lock: lock, body, unlock.  The n instructions
\* after it are skipped when its body returns false
Cs(m, what, n) == [i |-> "cs", m |-> m, what |-> what, k |-> 0, n |-> n]
\* a statement made with the locks already taken; n as for Cs
Do(what, n) == [i |-> "do", m |-> "", what |-> what, k |-> 0, n |-> n]
\* a condition of the code, on the k-th field of the name for a lookup:
\* the n instructions after it are skipped when it is false
If(what, k, n) == [i |-> "if", m |-> "", what |-> what, k |-> k, n |-> n]
\* the loop of logaux, one walked logger at a step
Walk == [i |-> "walk", m |-> "", what |-> "", k |-> 0, n |-> 0]

\* a departure from autolog: it takes the lock of the tree before it writes
autolog_prog_tree ==
  << Cs("log", "get_autolog", 6), Cs("tree", "autolog", 0),
     Cs("file", "autolog", 0), Cs("log", "autolog", 0),
     Cs("log", "autolog", 0), Cs("file", "autolog", 0),
     Cs("log", "autolog", 0) >>

\* Logger::autolog: get_autolog, then set_streamer, set_loglevel, logaux,
\* set_streamer and set_loglevel, each a scope of its own.  What the call
\* writes and the settings it forces and puts back are part of the
\* statement of the caller (Auto)
autolog_prog ==
  << Cs("log", "get_autolog", 5), Cs("file", "autolog", 0),
     Cs("log", "autolog", 0), Cs("log", "autolog", 0),
     Cs("file", "autolog", 0), Cs("log", "autolog", 0) >>

\* Logger::logaux
logaux_prog == <<Acq("log"), Walk, Rel("log")>>

\* Logger::autolog with each of its statements in its place: the stream
\* and the level are saved and forced, logaux writes, and the stream and
\* the level saved are put back
autolog_steps ==
  <<Cs("log", "get_autolog", 4 + Len(logaux_prog)),
    Cs("file", "force_streamer", 0), Cs("log", "force_loglevel", 0)>>
  \o logaux_prog
  \o <<Cs("file", "restore_streamer", 0), Cs("log", "restore_loglevel", 0)>>

\* instance->autolog(...) in the loop of get_regular_logger, which has the
\* lock of the tree
lookup_autolog_prog == <<Acq("tree")>> \o autolog_steps \o <<Rel("tree")>>

\* Logger::set_loglevel and Logger::set_streamer
set_loglevel_prog == <<Cs("log", "set_loglevel", 0)>>
set_streamer_prog == <<Cs("file", "set_streamer", 0)>>

\* Logger::set_logfile: error() is called with the lock of the files taken
set_logfile_prog ==
  <<Acq("file"), Do("set_logfile", Len(logaux_prog))>> \o logaux_prog
  \o <<Rel("file")>>

\* Logger::get_root_logger
get_root_logger_prog ==
  <<Acq("tree"), If("noroot", 0, 1), Cs("fmt", "make_root", 0), Rel("tree")>>

\* number of turns of the loop of get_regular_logger for a name
Turns(name) == Cardinality({i \in 1 .. Len(name) : name[i] = "."}) + 1

\* submod in the k-th turn of the loop
Submod(name, k) ==
  LET dots == {i \in 1 .. Len(name) : name[i] = "."}
      upto == {i \in dots : Cardinality({j \in dots : j <= i}) = k}
  IN IF upto = {} THEN name ELSE SubSeq(name, 1, Min(upto) - 1)

\* one turn of the loop of get_regular_logger
turn_prog(k) ==
  LET a == Len(autolog_prog)
  IN autolog_prog
     \o <<If("exists", k, 3 * a + 2)>> \o autolog_prog
     \o <<If("expired", k, a)>> \o autolog_prog
     \o <<If("locked", k, a)>> \o autolog_prog
     \o <<If("create", k, a + 1)>> \o autolog_prog
     \o <<Cs("fmt", "set_formatter_ptr", 0)>>

RECURSIVE turns_prog(_, _)
turns_prog(k, n) ==
  IF k > n THEN <<>> ELSE turn_prog(k) \o turns_prog(k + 1, n)

\* Logger::get_regular_logger
get_regular_logger_prog(module) ==
  get_root_logger_prog
  \o <<Acq("tree"), Cs("fmt", "get_formatter_ptr", 0)>>
  \o turns_prog(1, Turns(module))
  \o <<Do("get_regular_logger", 0), Do("return", 0), Rel("tree")>>

\* Logger::get_logger
get_logger_prog(module) ==
  (IF module = <<>>
   THEN SubSeq(get_root_logger_prog, 1, 3) \o <<Do("get_root_logger", 0)>>
        \o SubSeq(get_root_logger_prog, 4, 4)
   ELSE get_regular_logger_prog(module))
  \o set_loglevel_prog \o set_streamer_prog

\* Logger::~Logger of one object
destruct_prog ==
  LET a == Len(autolog_prog)
  IN <<Acq("tree")>> \o autolog_prog
     \o <<If("leaves", 0, a)>> \o autolog_prog
     \o <<If("unexpired", 0, a)>> \o autolog_prog
     \o <<If("orphan", 0, 4 * a)>>
     \o autolog_prog \o autolog_prog \o autolog_prog \o autolog_prog
     \o <<If("destok", 0, a)>> \o autolog_prog
     \o <<Do("destruct", 0), Rel("tree")>>

\* the destructors run when the last handle on an object of n fields goes
\* out of scope: its own, and then that of each parent nothing else holds
RECURSIVE teardown_prog(_)
teardown_prog(n) ==
  IF n = 0 THEN <<>>
  ELSE destruct_prog
       \o (IF n = 1 THEN <<>>
           ELSE <<If("cascade", 0, Len(teardown_prog(n - 1)))>>
                \o teardown_prog(n - 1))

\* the object a lookup has reached after k turns, nullptr when the entry
\* it needs is missing or expired
RECURSIVE Reached(_, _, _, _)
Reached(ns, sl, name, k) ==
  IF k = 0 THEN (IF RootAddr \in Live(ns) THEN RootAddr ELSE nullptr)
  ELSE LET p == Reached(ns, sl, name, k - 1)
           submod == Submod(name, k)
       IN IF p = nullptr THEN nullptr
          ELSE IF submod \notin DOMAIN ns[p].dict THEN nullptr
          ELSE IF Expired(ns, sl, ns[p].dict[submod]) THEN nullptr
          ELSE ns[p].dict[submod]

\* instance->dict[submod] in the k-th turn of the loop of a lookup: the
\* object the entry points to, nullptr when there is no entry
Entry(th, k) ==
  LET p      == Reached(nodes, held, th.name, k - 1)
      submod == Submod(th.name, k)
  IN IF p /= nullptr /\ submod \in DOMAIN nodes[p].dict
     THEN nodes[p].dict[submod] ELSE nullptr

\* the conditions of get_root_logger, get_regular_logger and ~Logger.
\* get_regular_logger tests exists and expired once in a turn and goes by
\* what it has found (seen) from there on
Cond(th, what, k) ==
  LET p      == Reached(nodes, held, th.name, k - 1)
      submod == Submod(th.name, k)
      exists == p /= nullptr /\ submod \in DOMAIN nodes[p].dict
      expired == exists /\ Expired(nodes, held, nodes[p].dict[submod])
      me     == nodes[th.victim]
      entry  == IF me.parent /= nullptr
                   /\ me.modname \in DOMAIN nodes[me.parent].dict
                THEN nodes[me.parent].dict[me.modname] ELSE nullptr
      unexpired == ~HasLeaves(me) /\ me.parent /= nullptr
                   /\ ~Expired(nodes, held, entry)
  IN CASE what = "noroot"    -> RootAddr \notin Live(nodes)
       [] what = "exists"    -> exists
       [] what = "expired"   -> expired
       [] what = "locked"    -> th.seen /= nullptr
       [] what = "create"    -> th.seen = nullptr
       [] what = "leaves"    -> HasLeaves(me)
       [] what = "unexpired" -> unexpired
       [] what = "orphan"    -> ~HasLeaves(me) /\ me.parent /= nullptr
                                /\ ~unexpired
       [] what = "destok"    -> ~HasLeaves(me) /\ ~unexpired
       [] what = "cascade"   -> th.victim /= nullptr

\* a departure from lock_guard: the lock is taken whoever owns the mutex
CanAcquireAlways(m) == TRUE

\* std::mutex::lock returns when no thread owns the mutex
CanAcquire(m) == mutex[m] = 0

\* instance->dict[submod].lock() gives an empty pointer: the last handle
\* on the object has gone out of scope since expired() was false
NullLock(t) ==
  LET th == threads[t]
  IN /\ th.op = "get_logger"
     /\ th.prog[th.pc].i = "if"
     /\ th.prog[th.pc].what = "locked"
     /\ th.seen /= nullptr
     /\ Expired(nodes, held, th.seen)

\* what a thread leaves behind when it has taken k instructions more
Advance(th, k) ==
  IF th.pc + k > Len(th.prog) THEN Idle ELSE [th EXCEPT !.pc = @ + k]

\* the thread after its next instruction: the pointers and arguments it
\* keeps, and how many instructions it has got past (none while the loop
\* of logaux goes on)
Moved(t) ==
  LET th   == threads[t]
      ins  == th.prog[th.pc]
      inst == IF th.inst = nullptr THEN th.node ELSE th.inst
      next == IF GoesOn(nodes, inst) THEN nodes[inst].parent ELSE nullptr
      err  == LET r == ResolveFile(fs, th.fname)
              IN r.err \/ SwitchFile(nodes[th.node], r.newfname).err
      p    == nodes[th.victim].parent
      skip == 1 + ins.n
      found == IF Expired(nodes, held, Entry(th, ins.k)) THEN nullptr
               ELSE Entry(th, ins.k)
  IN CASE NullLock(t) -> Idle
       [] ins.i = "walk" ->
            Advance([th EXCEPT !.inst = next],
                    IF next = nullptr THEN 1 ELSE 0)
       [] ins.i = "if" /\ ins.what = "exists" ->
            Advance([th EXCEPT !.seen = nullptr],
                    IF Cond(th, ins.what, ins.k) THEN 1 ELSE skip)
       [] ins.i = "if" /\ ins.what = "expired" ->
            Advance([th EXCEPT !.seen = found],
                    IF Cond(th, ins.what, ins.k) THEN 1 ELSE skip)
       [] ins.i = "if" /\ ins.what = "locked" ->
            Advance([th EXCEPT !.mode = th.seen /= nullptr
                                        /\ ins.k = Turns(th.name)],
                    IF Cond(th, ins.what, ins.k) THEN 1 ELSE skip)
       [] ins.i = "if" ->
            Advance(th, IF Cond(th, ins.what, ins.k) THEN 1 ELSE skip)
       [] ins.what = "get_autolog" ->
            Advance(th, IF autologOn THEN 1 ELSE skip)
       [] ins.what = "set_logfile" ->
            Advance([th EXCEPT !.level = ERROR], IF err THEN 1 ELSE skip)
       [] ins.what = "get_root_logger" ->
            Advance([th EXCEPT !.node = RootAddr], 1)
       [] ins.what = "force_streamer" ->
            Advance([th EXCEPT !.curos = nodes[th.node].outstream], 1)
       [] ins.what = "force_loglevel" ->
            Advance([th EXCEPT !.curlevel = nodes[th.node].loglevel], 1)
       [] ins.what = "get_regular_logger" ->
            Advance([th EXCEPT !.mode = TRUE], 1)
       [] ins.what = "return" ->
            Advance([th EXCEPT !.node =
                       Reached(nodes, held, th.name, Turns(th.name))], 1)
       [] ins.what = "destruct" ->
            Advance([th EXCEPT !.victim =
                       IF p /= nullptr
                          /\ UseCount(Remove(nodes, th.victim), held, p) = 0
                       THEN p ELSE nullptr], 1)
       [] OTHER -> Advance(th, 1)

\* the objects, the handles, the files and the record of the last call
\* before an instruction
Before ==
  [ ns |-> nodes, sl |-> held, files |-> fs, fmts |-> formatters,
    last |-> last, exited |-> FALSE ]

\* one turn of the loop of logaux, made by thread t
WalkOne(t, b) ==
  LET th   == threads[t]
      inst == IF th.inst = nullptr THEN th.node ELSE th.inst
  IN [b EXCEPT
        !.last = [NoCall EXCEPT !.op = "log", !.node = th.node,
                    !.level = th.level, !.thread = t, !.walk = <<inst>>,
                    !.out = WritesAt(nodes, inst, th.node, th.level)]]

\* what thread t has when get_regular_logger has left s1: the tree, the
\* handle it returns (taken at lock() when the logger was there) and the
\* record of the call
Looked(t, b, s1) ==
  LET th == threads[t]
  IN [b EXCEPT !.ns = s1.ns,
               !.exited = s1.exited,
               !.sl = IF s1.exited \/ th.mode THEN held
                      ELSE held (+) SetToBag({s1.instance}),
               !.last = [NoCall EXCEPT !.op = "get_logger",
                           !.node = s1.instance, !.name = th.name,
                           !.level = th.level, !.stream = th.stream,
                           !.ret = s1.instance, !.auto = s1.auto,
                           !.thread = t]]

\* what is left when the body of the destructor has left s1 and the object
\* of thread t's victim is freed
Destructed(t, b, s1) ==
  LET v == threads[t].victim
  IN [b EXCEPT !.ns = Remove(s1.ns, v),
               !.last = [NoCall EXCEPT !.op = "release",
                           !.node = v, !.auto = s1.auto,
                           !.shut = s1.shut, !.errs = s1.errs,
                           !.thread = t]]

\* the body of a scope or a statement, made by thread t
Body(t, b, what) ==
  LET th == threads[t]
      id == th.node
  IN CASE what = "set_loglevel" ->
            [b EXCEPT !.ns[id].loglevel = StoreLevel(@, th.level),
                      !.last = [NoCall EXCEPT !.op = "set_loglevel",
                                  !.node = id, !.level = th.level,
                                  !.ret = nodes[id].loglevel, !.thread = t]]
       [] what = "set_streamer" ->
            [b EXCEPT !.ns[id].outstream = SelectStream(@, th.stream),
                      !.last = [NoCall EXCEPT !.op = "set_streamer",
                                  !.node = id, !.stream = th.stream,
                                  !.ret = nodes[id].outstream, !.thread = t]]
       [] what = "force_streamer" ->
            [b EXCEPT !.ns[id].outstream = SelectStream(@, STDERR)]
       [] what = "force_loglevel" ->
            [b EXCEPT !.ns[id].loglevel = StoreLevel(@, DEBUG)]
       [] what = "restore_streamer" ->
            [b EXCEPT !.ns[id].outstream = th.curos]
       [] what = "restore_loglevel" ->
            [b EXCEPT !.ns[id].loglevel = StoreLevel(@, th.curlevel)]
       [] what = "set_logfile" ->
            LET r   == ResolveFile(fs, th.fname)
                sw  == SwitchFile(nodes[id], r.newfname)
                err == r.err \/ sw.err
            IN [b EXCEPT !.ns[id] = sw.me,
                         !.files = r.files,
                         !.last = [NoCall EXCEPT !.op = "set_logfile",
                                     !.node = id, !.fname = th.fname,
                                     !.ret = IF err THEN 1 ELSE 0,
                                     !.closed = sw.closed, !.thread = t]]
       [] what = "make_root" ->
            [b EXCEPT !.ns = get_root_logger(Start(nodes)).ns,
                      !.fmts = IF DefFormatter \in DOMAIN formatters
                               THEN formatters
                               ELSE formatters @@ (DefFormatter :> NewFormatter)]
       [] what = "get_root_logger" ->
            [b EXCEPT !.sl = held (+) SetToBag({RootAddr}),
                      !.last = [NoCall EXCEPT !.op = "get_logger",
                                  !.node = RootAddr, !.name = th.name,
                                  !.level = th.level, !.stream = th.stream,
                                  !.ret = RootAddr, !.thread = t]]
       [] what = "get_regular_logger" ->
            Looked(t, b, get_regular_logger(Start(nodes), held, autologOn,
                                            th.name))
       [] what = "destruct" ->
            Destructed(t, b, DestructBody(Start(nodes), held, autologOn,
                                          th.victim))
       [] OTHER -> b

\* what the next instruction of thread t makes of the objects
After(t) ==
  LET th  == threads[t]
      ins == th.prog[th.pc]
  IN CASE NullLock(t) ->
            [Before EXCEPT
               !.last = [NoCall EXCEPT !.op = "get_logger", !.name = th.name,
                           !.level = th.level, !.stream = th.stream,
                           !.ret = nullptr, !.thread = t]]
       [] ins.i = "if" /\ ins.what = "locked" /\ th.seen /= nullptr
          /\ ins.k = Turns(th.name) ->
            [Before EXCEPT !.sl = held (+) SetToBag({th.seen})]
       [] ins.i = "walk" -> WalkOne(t, Before)
       [] ins.i \in {"cs", "do"} -> Body(t, Before, ins.what)
       [] OTHER -> Before

\* thread t gets on with its call: it is in one, the mutex its next
\* instruction locks is free, and it takes the instruction
Runs(t) ==
  /\ ~exited
  /\ threads[t].op /= "idle"
  /\ LET ins == threads[t].prog[threads[t].pc]
     IN ins.i \in {"acq", "cs"} => CanAcquire(ins.m)
  /\ threads' = [threads EXCEPT ![t] = Moved(t)]

\* thread t takes the next instruction of its call
StepT(t) ==
  /\ Runs(t)
  /\ LET ins == threads[t].prog[threads[t].pc]
     IN mutex' = CASE NullLock(t) -> [mutex EXCEPT !["tree"] = 0]
                   [] ins.i = "acq" -> [mutex EXCEPT ![ins.m] = t]
                   [] ins.i = "rel" -> [mutex EXCEPT ![ins.m] = 0]
                   [] OTHER -> mutex
  /\ \E c \in {After(t)} :
        /\ nodes' = c.ns
        /\ held' = c.sl
        /\ fs' = c.files
        /\ formatters' = c.fmts
        /\ last' = c.last
        /\ exited' = c.exited
  /\ UNCHANGED <<autologOn, fmtobjs, rendered>>

\* instance->autolog through the empty pointer that lock() has given ends
\* the process.  (When it does not, the call goes on to 'null instance
\* returned' and leaves get_regular_logger by the exception: StepT.)
Crash(t) ==
  /\ ~exited
  /\ NullLock(t)
  /\ exited' = TRUE
  /\ last' = [NoCall EXCEPT !.op = "get_logger", !.name = threads[t].name,
                !.level = threads[t].level, !.stream = threads[t].stream,
                !.ret = nullptr, !.thread = t]
  /\ UNCHANGED <<nodes, held, fs, autologOn, fmtvars, thrvars>>

\* thread t, in no call, makes a call
Call(t, th) ==
  /\ ~exited
  /\ threads[t] = Idle
  /\ threads' = [threads EXCEPT ![t] = [th EXCEPT !.pc = 1]]
  /\ UNCHANGED <<nodes, held, fs, autologOn, exited, last, fmtvars, mutex>>

\* thread u is in a call made through a handle on the object at id, or in
\* the call of get_logger that has got the handle (mode) it will return
Using(u, id) ==
  /\ threads[u].op /= "idle"
  /\ \/ threads[u].node = id
     \/ /\ threads[u].op = "get_logger"
        /\ threads[u].mode
        /\ threads[u].node = nullptr
        /\ Reached(nodes, held, threads[u].name, Turns(threads[u].name)) = id

\* the handles on an object that no thread is making a call through
FreeHandles(id) ==
  CopiesIn(id, held) - Cardinality({u \in Threads : Using(u, id)})

ThreadLog(t, id, level) ==
  /\ id \in HeldNodes
  /\ Call(t, [Idle EXCEPT !.op = "log", !.prog = logaux_prog, !.node = id,
                          !.level = level])

ThreadSetLoglevel(t, id, level) ==
  /\ id \in HeldNodes
  /\ Call(t, [Idle EXCEPT !.op = "set_loglevel", !.prog = set_loglevel_prog,
                          !.node = id, !.level = level])

ThreadSetStreamer(t, id, streamval) ==
  /\ id \in HeldNodes
  /\ Call(t, [Idle EXCEPT !.op = "set_streamer", !.prog = set_streamer_prog,
                          !.node = id, !.stream = streamval])

ThreadSetLogfile(t, id, fname) ==
  /\ id \in HeldNodes
  /\ Call(t, [Idle EXCEPT !.op = "set_logfile", !.prog = set_logfile_prog,
                          !.node = id, !.fname = fname])

\* a lookup that has come to the logger at id calls autolog on it
ThreadAutolog(t, id, level) ==
  /\ id \in Live(nodes)
  /\ Call(t, [Idle EXCEPT !.op = "autolog", !.prog = lookup_autolog_prog,
                          !.node = id, !.level = level])

ThreadGetLogger(t, module, level, stream) ==
  /\ BagCardinality(held)
       + Cardinality({u \in Threads : threads[u].op = "get_logger"})
     < NHandles
  /\ Call(t, [Idle EXCEPT !.op = "get_logger",
                          !.prog = get_logger_prog(module),
                          !.name = module, !.level = level,
                          !.stream = stream])

\* a handle of thread t on the object at id goes out of scope: the use
\* count is decremented, and the destructor runs when it has dropped to zero
ThreadRelease(t, id) ==
  /\ ~exited
  /\ threads[t] = Idle
  /\ id \in HeldNodes
  /\ FreeHandles(id) > 0
  /\ LET sl == held (-) SetToBag({id})
     IN /\ held' = sl
        /\ threads' =
             IF UseCount(nodes, sl, id) = 0
             THEN [threads EXCEPT ![t] =
                     [Idle EXCEPT !.op = "release",
                                  !.prog = teardown_prog(Turns(nodes[id].modname)),
                                  !.pc = 1, !.victim = id]]
             ELSE threads
  /\ UNCHANGED <<nodes, fs, autologOn, exited, last, fmtvars, mutex>>

\* no thread is in a call
AllIdle == \A t \in Threads : threads[t] = Idle

----------------------------------------------------------------------------
(* Specifications.  Every one starts from the program's start (no logger    *)
(* exists, not even the root) and differs in the calls the callers make     *)
(* and in the arguments they pass.                                          *)

RootName == <<>>
NameA == <<"a">>
NameAB == <<"a", ".", "b">>

Names == {RootName, NameA, NameAB}
\* names with empty fields
OddNames == {<<"a", ".">>}
\* names at and beyond the limits of get_regular_logger
LongNames == {Repeat("x", MAX_MODULE_NAME_SIZE),
              Repeat("x", MAX_MODULE_NAME_SIZE + 1),
              Dotted(MAX_MODULE_SUBFIELDS),
              Dotted(MAX_MODULE_SUBFIELDS + 1)}

\* the registry: loggers looked up, created, configured on the way, released
Next ==
  \/ \E m \in Names,
        l \in {Unchanged, NOTSET, WARNING}, s \in {Unchanged, DEVNULL, STDOUT} :
        GetLogger(m, l, s)
  \/ \E id \in HeldNodes : Release(id)
  \/ \E id \in HeldNodes, l \in {Unchanged, NOTSET, WARNING} : SetLoglevel(id, l)
  \/ \E id \in HeldNodes, s \in {Unchanged, DEVNULL, STDOUT} : SetStreamer(id, s)
  \/ \E m \in BOOLEAN : SetAutolog(m)

Spec == Init /\ [][Next]_vars

\* names: of every shape, at the limits and beyond them
NextNames ==
  \/ \E m \in Names \cup OddNames \cup LongNames :
        GetLogger(m, Unchanged, Unchanged)
  \/ \E id \in HeldNodes : Release(id)
  \/ \E m \in BOOLEAN : SetAutolog(m)

SpecNames == Init /\ [][NextNames]_vars

\* levels: set on any logger of a chain and resolved from any other
NextLevels ==
  \/ \E m \in Names : GetLogger(m, Unchanged, Unchanged)
  \/ \E id \in HeldNodes : Release(id)
  \/ \E id \in HeldNodes, l \in {Unchanged, NOTSET, INFO, WARNING, -ERROR} :
        SetLoglevel(id, l)
  \/ \E id \in HeldNodes : GetEffectiveLoglevel(id)

SpecLevels == Init /\ [][NextLevels]_vars

\* levels: any int as the level of the root
IntLevels ==
  {Unchanged, INT_MIN, -INT_MAX, -(MAXLOG + 1), -WARNING, NOTSET, INFO,
   MAXLOG, MAXLOG + 1, INT_MAX}

NextInts ==
  \/ \E l \in IntLevels : GetLogger(RootName, l, Unchanged)
  \/ \E id \in HeldNodes, l \in IntLevels : SetLoglevel(id, l)

SpecInts == Init /\ [][NextInts]_vars

\* dispatch: records logged on a chain whose levels, streams and
\* propagation flags the callers set
NextDispatch ==
  \/ \E m \in Names : GetLogger(m, Unchanged, Unchanged)
  \/ \E id \in HeldNodes : Release(id)
  \/ \E id \in HeldNodes, l \in {NOTSET, WARNING} : SetLoglevel(id, l)
  \/ \E id \in HeldNodes, s \in {DEVNULL, STDOUT} : SetStreamer(id, s)
  \/ \E id \in HeldNodes, m \in BOOLEAN : SetPropagation(id, m)
  \/ \E id \in HeldNodes, l \in {INFO, WARNING, ERROR} : Log(id, l)

SpecDispatch == Init /\ [][NextDispatch]_vars

\* log files: set, changed, closed, and written by the records logged
NextFiles ==
  \/ \E m \in Names : GetLogger(m, Unchanged, Unchanged)
  \/ \E id \in HeldNodes : Release(id)
  \/ \E id \in HeldNodes,
        f \in {"", "f.log", "./f.log", "ro.log", "nodir/x.log"} :
        SetLogfile(id, f)
  \/ \E id \in HeldNodes, m \in BOOLEAN : SetPropagation(id, m)
  \/ \E id \in HeldNodes : Log(id, INFO)

SpecFiles == Init /\ [][NextFiles]_vars

\* log files of loggers that have a pointer to their file stream
NextStreams ==
  \/ \E m \in Names : GetLogger(m, Unchanged, Unchanged)
  \/ \E id \in HeldNodes,
        f \in {"", "f.log", "./f.log", "ro.log", "nodir/x.log"},
        garbage \in BOOLEAN :
        SetLogfileOfStream(id, f, garbage)

SpecStreams == Init /\ [][NextStreams]_vars

\* "%m", a record format of the callers
MessageOnly == <<"%", "m">>

\* formatters: made, attached to loggers, changed, and used by the records
NextFormatters ==
  \/ \E m \in Names : GetLogger(m, Unchanged, STDOUT)
  \/ \E id \in HeldNodes : Release(id)
  \/ \E r \in {DEFAULT_RECORDFMT, MessageOnly} : GetFormatter(r, TRUE)
  \/ \E id \in HeldNodes, o \in DOMAIN fmtobjs : SetFormatter(id, o)
  \/ \E o \in DOMAIN fmtobjs, r \in {DEFAULT_RECORDFMT, MessageOnly} :
        SetRecfmt(o, r)
  \/ \E o \in DOMAIN fmtobjs, e \in BOOLEAN : SetEol(o, e)
  \/ \E id \in HeldNodes, r \in {DEFAULT_RECORDFMT, MessageOnly} :
        SetRecfmtOfLogger(id, r)
  \/ \E id \in HeldNodes : Log(id, ERROR)

SpecFormatters == Init /\ [][NextFormatters]_vars

\* threads: records logged through "a.b" by one thread while another logs
\* or changes the settings of that logger; the loggers are there before
\* the threads start
NextThreads ==
  \/ AllIdle /\ GetLogger(NameAB, Unchanged, STDOUT)
  \/ AllIdle /\ \E id \in HeldNodes : Release(id)
  \/ \E t \in Threads, id \in HeldNodes : ThreadLog(t, id, ERROR)
  \/ \E t \in Threads, id \in HeldNodes : ThreadSetLoglevel(t, id, CRITICAL)
  \/ \E t \in Threads, id \in HeldNodes : ThreadSetStreamer(t, id, STDERR)
  \/ \E t \in Threads, id \in HeldNodes : ThreadSetLogfile(t, id, "nodir/x.log")
  \/ \E t \in Threads : StepT(t)

SpecThreads == Init /\ [][NextThreads]_vars

\* locks: every call that takes a lock, made by threads that share the
\* loggers; each thread that is in a call gets its turn again and again
NextLocks ==
  \/ \E t \in Threads : ThreadGetLogger(t, NameA, WARNING, STDOUT)
  \/ \E t \in Threads, id \in HeldNodes : ThreadRelease(t, id)
  \/ \E t \in Threads, id \in HeldNodes : ThreadLog(t, id, ERROR)
  \/ \E t \in Threads, id \in HeldNodes : ThreadSetLoglevel(t, id, WARNING)
  \/ \E t \in Threads, id \in HeldNodes : ThreadSetStreamer(t, id, STDOUT)
  \/ \E t \in Threads, id \in HeldNodes : ThreadSetLogfile(t, id, "nodir/x.log")
  \/ \E t \in Threads : StepT(t)
  \/ \E t \in Threads : Crash(t)

SpecLocks ==
  Init /\ [][NextLocks]_vars /\ \A t \in Threads : SF_threads(Runs(t))

\* autolog on the root, from a lookup, while other threads log through
\* the root and change its level and its stream
NextAutolog ==
  \/ AllIdle /\ GetLogger(RootName, WARNING, STDOUT)
  \/ \E t \in Threads : ThreadAutolog(t, RootAddr, DEBUG)
  \/ \E t \in Threads, id \in HeldNodes : ThreadLog(t, id, INFO)
  \/ \E t \in Threads, id \in HeldNodes : ThreadSetLoglevel(t, id, CRITICAL)
  \/ \E t \in Threads, id \in HeldNodes : ThreadSetStreamer(t, id, STDLOG)
  \/ \E t \in Threads : StepT(t)

SpecAutolog == Init /\ [][NextAutolog]_vars

\* record formats, names and messages of the callers
UpperPlain == <<"%", "L", " ", "%", "n", ":", "%", "M", "%", "%">>
Ids == <<"%", "T", "|", "%", "i", "|", "%", "p", "|", "%", "P">>
Unknown == <<"%", "q", "x", "%">>
PercentM == <<"%", "%", "m">>
Quoted == <<"%", "%", "%", "l", "%", "%">>
RecFmts ==
  {DEFAULT_RECORDFMT, MessageOnly, UpperPlain, Ids, Unknown, PercentM, Quoted}
NameSvc == <<"s", "v", "c">>
Hello == <<"h", "e", "l", "l", "o">>
Messages == {<<>>, Hello}

\* rendering: records of every level, from the main thread and from others
NextRender ==
  \E r \in RecFmts, msg \in Messages, n \in {RootName, NameSvc, NameAB},
     l \in (NOTSET - 1) .. (CRITICAL + 1), main \in BOOLEAN :
     FormatRecord(r, msg, n, l, main)

SpecRender == Init /\ [][NextRender]_vars

\* record formats and messages that bring a record to MAX_RECORD_LENGTH
\* within a message, within a name and within the colon after a name
MessageNameMessage == <<"%", "m", "%", "N", "%", "m">>
MessageName == <<"%", "M", "%", "N">>
NameMessage == <<"%", "n", "%", "m", "%", "%">>
NameThrice == <<"%", "N", "%", "N", "%", "N">>
LongFmts == {MessageNameMessage, MessageName, NameMessage, NameThrice}
LongMessages ==
  {Repeat("x", n) : n \in (MAX_RECORD_LENGTH - 6) .. (MAX_RECORD_LENGTH + 1)}
LongName == Repeat("n", MAX_MODULE_NAME_SIZE - 1)

\* rendering of records about as long as the longest record
NextLong ==
  \E r \in LongFmts, msg \in LongMessages,
     n \in {RootName, NameSvc, NameAB, LongName}, main \in BOOLEAN :
     FormatRecord(r, msg, n, ERROR, main)

SpecLong == Init /\ [][NextLong]_vars

----------------------------------------------------------------------------
(* Properties *)

\* the loggers from id up to the root, id first, whatever the flags say
RECURSIVE Chain(_, _)
Chain(ns, id) ==
  <<id>> \o (IF ns[id].parent = nullptr THEN <<>> ELSE Chain(ns, ns[id].parent))

Range(seq) == {seq[i] : i \in DOMAIN seq}

\* the live objects registered under the name m
Named(ns, m) == {id \in Live(ns) : ns[id].modname = m}

\* some handle is held on id or on a logger below id
HeldAtOrBelow(id) == \E x \in HeldNodes : id \in Range(Chain(nodes, x))

\* the step is a call of get_logger that returned
Returned == last'.op = "get_logger" /\ ~exited'

\* C1 as stated: two get_logger calls with the same name, a handle of the
\* first still live, return the same object; once no handle on that object
\* is left, the next get_logger with the name creates a new object.
C1_NewOnceHandlesDropped ==
  [][Returned /\ last'.name /= RootName =>
       LET old == Named(nodes, last'.name)
       IN /\ (\E id \in old : id \in HeldNodes) =>
               last'.ret \in old /\ Live(nodes') = Live(nodes)
          /\ (\A id \in old : id \notin HeldNodes) =>
               last'.ret \notin Live(nodes) /\ last'.ret \in Live(nodes')]_vars

\* C1 amended: the same object is returned while a handle on it is live, and
\* a new object is created once no handle is left on it nor on any logger
\* below it (a child keeps its parent alive); a new object is a freshly
\* constructed one.
C1_IdentityStable ==
  [][Returned /\ last'.name /= RootName =>
       LET old == Named(nodes, last'.name)
       IN /\ (\E id \in old : id \in HeldNodes) =>
               last'.ret \in old /\ Live(nodes') = Live(nodes)
          /\ (\A id \in old : ~HeldAtOrBelow(id)) =>
               /\ old = {}
               /\ last'.ret \notin Live(nodes)
               /\ last'.ret \in Live(nodes')
               /\ nodes'[last'.ret].modname = last'.name
               /\ nodes'[last'.ret].dict = <<>>]_vars

\* C1 witness: a second get_logger("a.b") has returned the object the first
\* handle still holds
C1_Witness ==
  /\ last.op = "get_logger"
  /\ last.name = NameAB
  /\ last.ret \in Live(nodes)
  /\ CopiesIn(last.ret, held) = 2

\* C2 as stated: a record is written at a walked logger only if the level of
\* the event is at least the effective threshold of that logger (its own
\* level if set, else the nearest set level above it, else the default).
C2_GatedByEffectiveLevel ==
  last.op = "log" =>
    \A i \in DOMAIN last.out :
      last.level >= get_effective_loglevel(nodes, last.out[i].node)

\* C3: resolution returns the level of the nearest logger on the way to the
\* root that has one set, WARNING when none has; and a level that
\* set_loglevel has just stored on a logger is what the next resolution
\* returns on every logger that has no nearer level set.
C3_Resolved ==
  last.op = "get_effective_loglevel" =>
    LET ch  == Chain(nodes, last.node)
        set == {i \in DOMAIN ch : nodes[ch[i]].loglevel /= NOTSET}
    IN last.ret = IF set = {} THEN WARNING ELSE nodes[ch[Min(set)]].loglevel

C3_SeesLaterSet ==
  (/\ last.op = "set_loglevel"
   /\ last.level \in DEBUG .. CRITICAL
   /\ last'.op = "get_effective_loglevel"
   /\ \E i \in DOMAIN Chain(nodes, last'.node) :
         /\ Chain(nodes, last'.node)[i] = last.node
         /\ \A j \in 1 .. (i - 1) :
              nodes[Chain(nodes, last'.node)[j]].loglevel = NOTSET)
  => last'.ret = last.level

C3_EffectiveLevel == [](C3_Resolved) /\ [][C3_SeesLaterSet]_vars

\* C3 witness: "a.b" has no level, "a" has INFO and the root WARNING, and
\* the resolution on "a.b" has returned INFO
C3_Witness ==
  /\ last.op = "get_effective_loglevel"
  /\ nodes[last.node].modname = NameAB
  /\ nodes[last.node].loglevel = NOTSET
  /\ nodes[nodes[last.node].parent].loglevel = INFO
  /\ nodes[RootAddr].loglevel = WARNING
  /\ last.ret = INFO

\* the number of sinks a logger writes to: its stream and its open file
ActiveSinks(ns, id) ==
  (IF ns[id].outstream /= "null" THEN 1 ELSE 0) + (IF ns[id].isopen THEN 1 ELSE 0)

\* C4: on the chain root <- a <- a.b, all three propagating and each with
\* one sink, a record logged on "a.b" at a level that passes the threshold
\* of all three is written exactly three times, at a.b, then a, then the
\* root, each time under the name "a.b" and the level of the event.
C4_ThreeRecords ==
  (/\ last.op = "log"
   /\ nodes[last.node].modname = NameAB
   /\ \A n \in Range(Chain(nodes, last.node)) :
        /\ nodes[n].propagate
        /\ ActiveSinks(nodes, n) = 1
        /\ last.level >= get_effective_loglevel(nodes, n))
  => LET ch == Chain(nodes, last.node)
     IN /\ Len(ch) = 3
        /\ Len(last.out) = 3
        /\ \A i \in 1 .. 3 :
             /\ last.out[i].node = ch[i]
             /\ last.out[i].name = NameAB
             /\ last.out[i].level = last.level

C4_Witness ==
  /\ last.op = "log"
  /\ nodes[last.node].modname = NameAB
  /\ Len(last.out) = 3
  /\ last.out[3].node = RootAddr
  /\ last.out[3].name = NameAB
  /\ nodes[RootAddr].loglevel = WARNING

\* C5: a record is written only at loggers that every logger before them on
\* the walk lets through (propagate set), so nothing above a logger with
\* propagate unset gets it; that logger itself still writes it when the
\* level passes its own level and it has a sink.
C5_PropagationStops ==
  last.op = "log" =>
    LET ch == Chain(nodes, last.node)
    IN /\ \A i \in DOMAIN last.out :
            \E k \in DOMAIN ch :
               /\ ch[k] = last.out[i].node
               /\ \A j \in 1 .. (k - 1) : nodes[ch[j]].propagate
       /\ \A k \in DOMAIN ch :
            (/\ ~nodes[ch[k]].propagate
             /\ \A j \in 1 .. (k - 1) : nodes[ch[j]].propagate
             /\ ActiveSinks(nodes, ch[k]) > 0
             /\ last.level >= nodes[ch[k]].loglevel)
            => \E i \in DOMAIN last.out : last.out[i].node = ch[k]

C5_Witness ==
  /\ last.op = "log"
  /\ nodes[last.node].modname = NameAB
  /\ nodes[last.node].propagate
  /\ ~nodes[nodes[last.node].parent].propagate
  /\ ActiveSinks(nodes, RootAddr) = 1
  /\ last.level >= nodes[RootAddr].loglevel
  /\ \E i \in DOMAIN last.out : last.out[i].node = nodes[last.node].parent
  /\ \A i \in DOMAIN last.out : last.out[i].node /= RootAddr

\* the walk that the propagate flags alone give: up to and including the
\* first logger with propagate unset
RECURSIVE WalkByFlags(_, _)
WalkByFlags(ns, id) ==
  <<id>> \o (IF ns[id].propagate /\ ns[id].parent /= nullptr
             THEN WalkByFlags(ns, ns[id].parent) ELSE <<>>)

\* C6: a record whose level is below the level of a walked logger is not
\* written at that logger, neither to its stream nor to its file, and the
\* loggers walked are those the propagate flags give, whatever was or was
\* not written on the way.
C6_GateDoesNotStopWalk ==
  last.op = "log" =>
    /\ \A i \in DOMAIN last.out :
         last.level >= nodes[last.out[i].node].loglevel
    /\ last.walk = WalkByFlags(nodes, last.node)
    /\ \A k \in DOMAIN last.walk :
         (/\ ActiveSinks(nodes, last.walk[k]) > 0
          /\ last.level >= nodes[last.walk[k]].loglevel)
         => \E i \in DOMAIN last.out : last.out[i].node = last.walk[k]

\* C6 witness: INFO logged on "a.b", held back at "a.b" whose level is
\* WARNING, and written higher up
C6_Witness ==
  /\ last.op = "log"
  /\ last.level = INFO
  /\ nodes[last.node].modname = NameAB
  /\ nodes[last.node].loglevel = WARNING
  /\ ActiveSinks(nodes, last.node) = 1
  /\ \A i \in DOMAIN last.out : last.out[i].node /= last.node
  /\ \E i \in DOMAIN last.out : last.out[i].node = RootAddr

\* C7 as stated: a set_logfile that fails (returns 1) leaves the file of the
\* logger as it was: the same name, open if it was open.
C7_FailureKeepsFile ==
  [][last'.op = "set_logfile" /\ last'.ret = 1 =>
       /\ nodes'[last'.node].filename = nodes[last'.node].filename
       /\ nodes'[last'.node].isopen = nodes[last'.node].isopen]_vars

\* C8: set_logfile("") on a logger with an open file closes it and returns
\* 0; and a logger whose file is closed keeps it closed, and no record is
\* written to a file at that logger, until a set_logfile with a name on
\* that logger succeeds.
C8_ClosesFile ==
  last'.op = "set_logfile" /\ last'.fname = "" =>
    /\ last'.ret = 0
    /\ last'.closed = nodes[last'.node].isopen
    /\ ~nodes'[last'.node].isopen
    /\ nodes'[last'.node].filename = ""

C8_StaysClosed ==
  \A n \in Live(nodes) \cap Live(nodes') :
    (/\ ~nodes[n].isopen
     /\ ~(/\ last'.op = "set_logfile" /\ last'.node = n
          /\ last'.fname /= "" /\ last'.ret = 0))
    => /\ ~nodes'[n].isopen
       /\ \A i \in DOMAIN last'.out :
            ~(last'.out[i].file /\ last'.out[i].node = n)

C8_EmptyNameCloses == [][C8_ClosesFile /\ C8_StaysClosed]_vars

\* C8 witness: set_logfile("") has closed an open file
C8_Witness ==
  /\ last.op = "set_logfile"
  /\ last.fname = ""
  /\ last.closed
  /\ last.ret = 0

\* C9 as stated: when get_logger rejects a name (exit is called), no logger
\* has been created or entered in a dictionary by that call; the root, which
\* every call makes sure exists, apart.
C9_NothingCreatedOnReject ==
  [][exited' /\ ~exited =>
       /\ Live(nodes') \ {RootAddr} = Live(nodes) \ {RootAddr}
       /\ \A n \in Live(nodes) : nodes'[n].dict = nodes[n].dict]_vars

\* the stream a selector of set_streamer stands for
StreamOf(streamval) ==
  CASE streamval = STDOUT  -> "cout"
    [] streamval = STDERR  -> "cerr"
    [] streamval = STDLOG  -> "clog"
    [] streamval = DEVNULL -> "null"

\* C10: get_logger on a logger that exists leaves its level as it was when
\* the level argument is UNCHANGED and its stream as it was when the stream
\* argument is UNCHANGED, and sets the one that is given.
C10_UnchangedKeeps ==
  [][Returned /\ last'.ret \in Live(nodes) =>
       LET n == last'.ret
       IN /\ last'.level = Unchanged =>
               nodes'[n].loglevel = nodes[n].loglevel
          /\ last'.stream = Unchanged =>
               nodes'[n].outstream = nodes[n].outstream
          /\ last'.level \in NOTSET .. CRITICAL =>
               nodes'[n].loglevel = last'.level
          /\ last'.stream \in DEVNULL .. STDLOG =>
               nodes'[n].outstream = StreamOf(last'.stream)]_vars

\* C10 witness: get_logger(name, UNCHANGED, UNCHANGED) has returned a logger
\* that another handle holds, with its level WARNING and its stream cout
C10_Witness ==
  /\ last.op = "get_logger"
  /\ last.level = Unchanged
  /\ last.stream = Unchanged
  /\ last.ret \in Live(nodes)
  /\ CopiesIn(last.ret, held) = 2
  /\ last.ret /= RootAddr
  /\ nodes[last.ret].loglevel = WARNING
  /\ nodes[last.ret].outstream = "cout"

\* the loggers a get_logger call has created, the root apart
Created == (Live(nodes') \ Live(nodes)) \ {RootAddr}

\* C11 as stated: a logger that get_logger has created has the default
\* formatter, no file and propagate set, and, unless it is the one the call
\* returns and then configures with its arguments, no level and no stream,
\* whatever formatter the root or any other logger has been given before.
C11_CreatedWithDefaults ==
  [][Returned =>
       \A n \in Created :
          /\ nodes'[n].formatter = DefFormatter
          /\ ~nodes'[n].isopen
          /\ nodes'[n].propagate
          /\ n /= last'.ret =>
               nodes'[n].loglevel = NOTSET /\ nodes'[n].outstream = "null"]_vars

\* C13 as stated: a record written at a logger is rendered with the record
\* format and the end-of-line setting that the Formatter value attached to
\* the logger has at that time, so that a setter called on that value after
\* it was attached shows in the next record of every logger it is attached to.
C13_SettersReachLoggers ==
  last.op = "log" =>
    \A i \in DOMAIN last.out : \A o \in DOMAIN fmtobjs :
       fmtobjs[o].fmtptr = last.out[i].fmt =>
         /\ formatters[last.out[i].fmt].recordformat = fmtobjs[o].recordformat
         /\ formatters[last.out[i].fmt].eol = fmtobjs[o].eol

\* C12: from the first get_logger on there is one root: it is live, it is
\* the only live logger without a parent, every get_logger("") returns it,
\* and it is not destroyed, whatever handles are released.
C12_RootThere ==
  nodes /= <<>> =>
    /\ RootAddr \in Live(nodes)
    /\ \A n \in Live(nodes) : nodes[n].parent = nullptr <=> n = RootAddr
    /\ (last.op = "get_logger" /\ last.name = RootName) => last.ret = RootAddr

C12_RootStays ==
  RootAddr \in Live(nodes) =>
    /\ RootAddr \in Live(nodes')
    /\ nodes'[RootAddr].modname = RootName
    /\ last'.op = "release" =>
         /\ nodes'[RootAddr].loglevel = nodes[RootAddr].loglevel
         /\ nodes'[RootAddr].outstream = nodes[RootAddr].outstream

C14_AutologStaysOut ==
  \A i \in DOMAIN last.auto :
     /\ ~last.auto[i].file
     /\ last.auto[i].sink = "cerr"

\* the loggers a step has destroyed
Destroyed == Live(nodes) \ Live(nodes')

\* C18: no dictionary holds an entry for a logger that is gone: every entry
\* is for a live logger of that name whose parent is the owner of the
\* dictionary; and the destructor of a logger that had a file open has
\* closed it.
C18_NoExpiredEntry ==
  \A n \in Live(nodes) : \A k \in DOMAIN nodes[n].dict :
     /\ nodes[n].dict[k] \in Live(nodes)
     /\ ~Expired(nodes, held, nodes[n].dict[k])
     /\ nodes[nodes[n].dict[k]].modname = k
     /\ nodes[nodes[n].dict[k]].parent = n

C18_FileClosed ==
  last'.op = "release" =>
    \A n \in Destroyed :
       /\ nodes[n].isopen => n \in last'.shut
       /\ nodes[n].parent \in Live(nodes') =>
            nodes[n].modname \notin DOMAIN nodes'[nodes[n].parent].dict

C18_TeardownCleans == [](C18_NoExpiredEntry) /\ [][C18_FileClosed]_vars

\* C18 witness: the last handle on "a.b" has been released while "a" is
\* held; "a.b" had a file open, which has been closed, and "a" has no entry
\* left
C18_Witness ==
  /\ last.op = "release"
  /\ last.node \notin Live(nodes)
  /\ last.shut = {last.node}
  /\ \E n \in HeldNodes : nodes[n].modname = NameA /\ nodes[n].dict = <<>>

\* C19: the parent of every live logger but the root is live, and no
\* destructor finds entries in the dictionary of its logger, in whatever
\* order the handles are released.
C19_ParentLive ==
  \A n \in Live(nodes) \ {RootAddr} : nodes[n].parent \in Live(nodes)

C19_NoLeaves == last.op = "release" => last.errs = {}

C19_ParentOutlives == C19_ParentLive /\ C19_NoLeaves

\* C19 witness: the handle on "a" has been released while one on "a.b" is
\* held, and "a" is still there
C19_Witness ==
  /\ last.op = "release"
  /\ HeldNodes /= {}
  /\ \A n \in HeldNodes : nodes[n].modname = NameAB
  /\ last.node \in Live(nodes)
  /\ nodes[last.node].modname = NameA
  /\ last.node \notin HeldNodes

\* the names of the levels, in lowercase
LowerName(level) ==
  CASE level = NOTSET   -> <<"u", "n", "s", "e", "t">>
    [] level = DEBUG    -> <<"d", "e", "b", "u", "g">>
    [] level = INFO     -> <<"i", "n", "f", "o">>
    [] level = WARNING  -> <<"w", "a", "r", "n", "i", "n", "g">>
    [] level = ERROR    -> <<"e", "r", "r", "o", "r">>
    [] level = CRITICAL -> <<"c", "r", "i", "t", "i", "c", "a", "l">>

\* C20: with the record format "%t %I[%l] %N%m" and a caller in the main
\* thread the record is the time, a space, "[", the name of the level in
\* lowercase, "] ", the name of the logger followed by ": " if and only if
\* the name is not empty, and the message.
C20_DefaultRecord ==
  (/\ rendered.recordformat = DEFAULT_RECORDFMT
   /\ rendered.main
   /\ rendered.level \in NOTSET .. CRITICAL)
  => rendered.record =
       TimeStamp \o <<" ", "[">> \o LowerName(rendered.level) \o <<"]", " ">>
       \o (IF rendered.name /= <<>> THEN rendered.name \o <<":", " ">>
           ELSE <<>>)
       \o rendered.message

\* C20 witness: "hello" at ERROR under the name "svc" has been rendered as
\* "<time> [error] svc: hello"
C20_Witness ==
  /\ rendered.recordformat = DEFAULT_RECORDFMT
  /\ rendered.main
  /\ rendered.name = NameSvc
  /\ rendered.level = ERROR
  /\ rendered.message = Hello
  /\ rendered.record =
       TimeStamp \o <<" ", "[", "e", "r", "r", "o", "r", "]", " ",
                      "s", "v", "c", ":", " ", "h", "e", "l", "l", "o">>

\* the thread is in the loop of logaux: it has the lock and has not left
InWalk(th) == th.op /= "idle" /\ th.prog[th.pc].i = "walk"

\* C15: two emits on different threads are serialized: from the time one
\* has started its walk until it has written the last record of its call,
\* no other thread is in the walk of its own call.
C15_EmitsSerialized ==
  \A t, u \in Threads :
    (InWalk(threads[t]) /\ InWalk(threads[u])) => t = u

\* C15 witness: a thread has written a record of its call and has the walk
\* to go on with, while another thread has called log and is waiting
C15_Witness ==
  \E t, u \in Threads :
    /\ t /= u
    /\ threads[t].op = "log" /\ InWalk(threads[t])
    /\ threads[t].inst /= nullptr
    /\ last.op = "log" /\ last.thread = t /\ last.out /= <<>>
    /\ threads[u].op = "log" /\ threads[u].pc = 1

\* the settings logaux reads from a walked logger
Settings(me) ==
  <<me.loglevel, me.propagate, me.outstream, me.isopen, me.filename,
    me.formatter>>

\* C16: while a thread is in the walk of an emit, no step changes the
\* level, the propagation flag, the stream, the file or the formatter of a
\* logger between the logger of the call and the root.
C16_WalkedSettingsFixed ==
  [][\A t \in Threads :
       (InWalk(threads[t]) /\ InWalk(threads'[t]))
       => \A n \in Range(Chain(nodes, threads[t].node)) :
            Settings(nodes'[n]) = Settings(nodes[n])]_vars

\* the order in which the code takes the mutexes
Rank(m) ==
  CASE m = "tree" -> 1 [] m = "fmt" -> 2 [] m = "file" -> 3 [] m = "log" -> 4

\* the mutexes a thread owns, and the one it is about to lock
Holds(t) == {m \in Mutexes : mutex[m] = t}
Wants(t) ==
  IF threads[t].op /= "idle"
     /\ threads[t].prog[threads[t].pc].i \in {"acq", "cs"}
  THEN {threads[t].prog[threads[t].pc].m} ELSE {}

C17_LockOrder ==
  \A t \in Threads : \A m \in Wants(t) : \A h \in Holds(t) : Rank(h) < Rank(m)

C17_Completes ==
  \A t \in Threads :
    (threads[t].op /= "idle") ~> (threads[t].op = "idle" \/ exited)

\* C17: a thread locks a mutex only while it owns none that comes at or
\* after it in one fixed order (so there is no cycle, and no mutex is
\* locked again by its owner), and every call a thread has started
\* (get_logger, a setter, an emit, a teardown) comes to its end while the
\* process runs.
C17_NoDeadlock == [](C17_LockOrder) /\ C17_Completes

\* C17 witness: a thread that owns the lock of the tree and the lock of the
\* files waits for the lock of the records, which another thread owns
C17_Witness ==
  \E t, u \in Threads :
    /\ t /= u
    /\ Holds(u) = {"log"}
    /\ Wants(t) = {"log"}
    /\ Cardinality(Holds(t)) >= 1

----------------------------------------------------------------------------
(* The longest record *)

\* what one directive stands for in the record of the last call, whatever
\* the length of the record
Directive(c) ==
  CASE c \in {"t", "T"} -> TimeStamp
    [] c = "n" -> rendered.name
    [] c = "N" -> IF rendered.name = <<>> THEN <<>>
                  ELSE rendered.name \o <<":", " ">>
    [] c = "i" -> ThreadId
    [] c = "I" -> IF rendered.main THEN <<>>
                  ELSE <<"(">> \o ThreadId \o <<")", " ">>
    [] c = "p" -> ProcessId
    [] c = "P" -> ParentId
    [] c = "l" -> level_to_string(rendered.level, FALSE)
    [] c = "L" -> level_to_string(rendered.level, TRUE)
    [] c \in {"m", "M"} -> rendered.message
    [] c = "%" -> <<"%">>
    [] OTHER -> <<"%", c>>

\* the record format expanded from left to right with no limit of length
RECURSIVE Expansion(_)
Expansion(fmt) ==
  IF fmt = <<>> THEN <<>>
  ELSE IF Len(fmt) = 1 \/ Head(fmt) /= "%"
       THEN <<Head(fmt)>> \o Expansion(Tail(fmt))
       ELSE Directive(fmt[2]) \o Expansion(SubSeq(fmt, 3, Len(fmt)))

\* the first max characters of a string
First(str, max) == SubSeq(str, 1, Min2(Len(str), max))

\* C21: a record is never longer than MAX_RECORD_LENGTH, and it is the
\* whole expansion of its format when that fits and the first
\* MAX_RECORD_LENGTH characters of the expansion when it does not,
\* also when the limit falls within the name of %N or within its ": "
C21_CappedPrefix ==
  /\ Len(rendered.record) <= MAX_RECORD_LENGTH
  /\ rendered.record =
       First(Expansion(rendered.recordformat), MAX_RECORD_LENGTH)

\* a record cut within the ": " that follows the name: the colon is the
\* last character
C21_Witness ==
  /\ rendered.recordformat = MessageNameMessage
  /\ rendered.name = NameSvc
  /\ Len(rendered.message) = MAX_RECORD_LENGTH - 4
  /\ Len(rendered.record) = MAX_RECORD_LENGTH
  /\ rendered.record[MAX_RECORD_LENGTH] = ":"
  /\ Len(Expansion(rendered.recordformat)) > MAX_RECORD_LENGTH

----------------------------------------------------------------------------
(* Directives *)

\* the positions of a record format at which the loop of format_record
\* starts a turn, from position k on
RECURSIVE TurnsFrom(_, _)
TurnsFrom(fmt, k) ==
  IF k > Len(fmt) THEN {}
  ELSE {k} \cup TurnsFrom(fmt, IF fmt[k] = "%" /\ k < Len(fmt)
                                THEN k + 2 ELSE k + 1)

\* the positions at which a '%' and the character after it are read together
Pairs(fmt) == {k \in TurnsFrom(fmt, 1) : fmt[k] = "%" /\ k < Len(fmt)}

\* the record of the last call had its record format been fmt
RecordOf(fmt) ==
  format_record(Formatter(fmt, DEFAULT_TIMEFMT, TRUE), rendered.message,
                rendered.name, rendered.level, rendered.main)

\* the record of the last call is the record of what is before position k
\* of its format, then str, then the record of what is after position k + 1
Splices(k, str) ==
  LET fmt == rendered.recordformat
  IN rendered.record =
       First(RecordOf(SubSeq(fmt, 1, k - 1)) \o str
               \o RecordOf(SubSeq(fmt, k + 2, Len(fmt))),
             MAX_RECORD_LENGTH)

\* the directives the description of the record format lists, and the ones
\* the switch of format_record has a case for
Listed == {"t", "T", "n", "N", "i", "I", "l", "L", "m", "M", "%"}
Cases == Listed \cup {"p", "P"}

\* C22 as it stands: a '%' before a character that is none of
\* t T n N i I l L m M % gives these two characters in the record
C22_UnlistedCopied ==
  \A k \in Pairs(rendered.recordformat) :
     LET c == rendered.recordformat[k + 1]
     IN c \notin Listed => Splices(k, <<"%", c>>)

\* C22: a '%' before a character that is none of t T n N i I l L m M p P %
\* gives these two characters in the record, and nothing else
C22_UnknownCopied ==
  \A k \in Pairs(rendered.recordformat) :
     LET c == rendered.recordformat[k + 1]
     IN c \notin Cases => Splices(k, <<"%", c>>)

\* "%qx%" has given the record "%qx%"
C22_Witness ==
  /\ rendered.recordformat = Unknown
  /\ rendered.record = Unknown

\* C23: "%%" in a record format gives one '%' in the record and both
\* characters are used up, whatever is before and after them
C23_PercentPercent ==
  \A k \in Pairs(rendered.recordformat) :
     rendered.recordformat[k + 1] = "%" => Splices(k, <<"%">>)

\* "%%m" has given "%m", not a '%' and the message
C23_Witness ==
  /\ rendered.recordformat = PercentM
  /\ rendered.message = Hello
  /\ rendered.record = <<"%", "m">>

----------------------------------------------------------------------------
(* Teardown and lookup of one name by several threads *)

\* the destructor of the object at id is run by thread t, which has the
\* lock of the tree and has not yet freed the object
InTeardown(t, id) ==
  /\ threads[t].op = "release"
  /\ threads[t].victim = id
  /\ id \in Live(nodes)
  /\ mutex["tree"] = t

\* the object that the entry for the name of the object at id, in the
\* dictionary of its parent, points to; nullptr when there is none
EntryOf(id) ==
  LET me == nodes[id]
  IN IF me.parent /= nullptr /\ me.modname \in DOMAIN nodes[me.parent].dict
     THEN nodes[me.parent].dict[me.modname] ELSE nullptr

\* C24: the destructor of a logger, once it has the lock of the tree,
\* does not find an entry under its own name in the dictionary of its
\* parent that has not expired: 'a new logger has been created during
\* destruction' is never logged.
C24_TeardownFindsExpired ==
  \A t \in Threads : \A id \in Live(nodes) :
     InTeardown(t, id) => Expired(nodes, held, EntryOf(id))

\* C25: the lookup of get_regular_logger never has an empty pointer in
\* its hands: when expired() was false for an entry, lock() on that entry
\* gives the object, also when handles on it go out of scope in between;
\* no call of get_logger ends without a logger.
C25_LookupNeverNull ==
  /\ \A t \in Threads : ~NullLock(t)
  /\ (last.op = "get_logger" /\ ~exited) => last.ret /= nullptr

\* C26: every logger that is in use (its use count is not zero) and is
\* not the root has a parent, and so has every logger from it up to the
\* root, which the parents lead to; each of them is in the dictionary of
\* its parent under its own name, so that the dictionaries lead from the
\* root to it.  A logger whose destructor is waiting or running is not in
\* use any more.
C26_LiveRegistered ==
  \A id \in Live(nodes) :
     ~Expired(nodes, held, id) =>
        /\ Chain(nodes, id)[Len(Chain(nodes, id))] = RootAddr
        /\ \A n \in Range(Chain(nodes, id)) \ {RootAddr} : EntryOf(n) = n

\* C26 witness: the destructor of a logger is running while a new logger
\* of the same name is in use and in the dictionary of the root
C26_Witness ==
  \E t \in Threads : \E id, n \in Live(nodes) :
     /\ InTeardown(t, id)
     /\ n /= id
     /\ nodes[n].modname = nodes[id].modname
     /\ ~Expired(nodes, held, n)
     /\ EntryOf(n) = n
     /\ CopiesIn(n, held) > 0

----------------------------------------------------------------------------
(* autolog and the settings of the callers *)

\* thread t is in autolog, has forced the stream of the logger and has not
\* yet put back the level
Forcing(t) ==
  LET th == threads[t]
  IN /\ th.op = "autolog"
     /\ \E i \in 1 .. (th.pc - 1) : th.prog[i].what = "force_streamer"
     /\ \E i \in th.pc .. Len(th.prog) : th.prog[i].what = "restore_loglevel"

\* the logger whose level and stream the walk of thread u reads next
Walked(u) ==
  IF threads[u].inst = nullptr THEN threads[u].node ELSE threads[u].inst

\* thread t puts back what autolog has saved
Restores(t, what) ==
  /\ threads[t].op = "autolog"
  /\ threads[t].prog[threads[t].pc].what = what
  /\ threads'[t] /= threads[t]

\* C27: autolog leaves the settings of the callers alone.  No emit of
\* another thread reads the level and the stream of a logger while autolog
\* has DEBUG and STDERR forced on it, and what autolog puts back replaces
\* what it has forced, never a level or a stream a caller has set since.
C27_AutologKeepsSettings ==
  [][/\ \A t, u \in Threads :
          (Forcing(t) /\ threads[u].op = "log" /\ InWalk(threads[u]))
          => Walked(u) /= threads[t].node
     /\ \A t \in Threads :
          /\ Restores(t, "restore_streamer")
              => nodes[threads[t].node].outstream = SelectStream("", STDERR)
          /\ Restores(t, "restore_loglevel")
              => nodes[threads[t].node].loglevel = DEBUG]_vars

----------------------------------------------------------------------------
(* The log file of a logger *)

\* C28: whatever calls of set_logfile have been made, a logger has a file
\* name exactly when its file stream is open, and the stream it has is
\* not one that has been closed and deleted.
C28_NameIffOpen ==
  \A id \in Live(nodes) :
     /\ nodes[id].filename /= "" <=> nodes[id].isopen
     /\ nodes[id].logfile /= "deleted"

----------------------------------------------------------------------------
(* The range of the level *)

\* the absolute value of a level, brought into MINLOG .. MAXLOG
InRange(level) ==
  IF level <= -MAXLOG \/ level >= MAXLOG THEN MAXLOG
  ELSE IF level < 0 THEN -level ELSE level

\* C29: the level of a logger is one of NOTSET .. CRITICAL whatever ints
\* set_loglevel and get_logger are given: every level but UNCHANGED is
\* stored as its absolute value, or as CRITICAL when that is greater,
\* UNCHANGED leaves the level as it is, and set_loglevel returns the
\* level the logger had before.
C29_LevelInRange ==
  [][(last' /= last \/ nodes' /= nodes) =>
       /\ \A id \in Live(nodes') :
            nodes'[id].loglevel \in NOTSET .. CRITICAL
       /\ (last'.op \in {"set_loglevel", "get_logger"}
            /\ last'.node \in Live(nodes)) =>
              nodes'[last'.node].loglevel =
                IF last'.level = Unchanged
                THEN nodes[last'.node].loglevel
                ELSE InRange(last'.level)
       /\ last'.op = "set_loglevel" =>
              last'.ret = nodes[last'.node].loglevel]_vars

====
